---------------------------- MODULE Spec2Model ----------------------------
(***************************************************************************)
(* A model of the ecpair key-pair library: the validated byte types, the   *)
(* two CryptoBackend adapters (NobleBackend, LegacyBackend), the WIF codec *)
(* and the signer core ECPairSigner.                                       *)
(*                                                                         *)
(* Scaling.  secp256k1 is replaced by the curve y^2 = x^3 + 8x + 6 over    *)
(* F_13, whose group has prime order 11 and generator G = (2, 2).  A byte  *)
(* holds ByteBase = 4 values instead of 256 and a "32-byte" buffer has     *)
(* KeyLen = 2 bytes, so a scalar buffer ranges over 0..15: the values      *)
(* 0, n-1, n, n+1 and 2^(8*32)-1 of the source become 0, 10, 11, 12, 15.   *)
(* The SEC1 prefix bytes (2, 3, 4, 6, 7) and the WIF version bytes keep    *)
(* their values.  All arithmetic is done as the source does it, on the     *)
(* scaled numbers.                                                         *)
(***************************************************************************)
EXTENDS Integers, Sequences, FiniteSets, TLC

\* ------------------------------------------------------------------------
\* Constants of the program (scaled)
\* ------------------------------------------------------------------------

\* types.ts EC_N: the order of the curve group
EC_N == 11
\* types.ts EC_P: the field prime
EC_P == 13
\* number of values of one byte (256 in the source)
ByteBase == 4
\* number of values of one hex digit (16 in the source)
HexBase == 2
\* length of a Bytes32 buffer (32 in the source)
KeyLen == 2
\* length of the Uint32 counter written by DataView.setUint32 (4 in the source)
CounterLen == 2
\* length of the extra entropy buffer of ECPairSigner.sign (32 in the source)
EntropyLen == 3
\* the low-R threshold 0x7f of ECPairSigner.sign: half the byte range, minus 1
LowRMax == 1

\* curve coefficients and generator of the scaled curve
CurveA == 8
CurveB == 6
Gx == 2
Gy == 2

\* ------------------------------------------------------------------------
\* Byte utilities (types.ts, noble.ts)
\* ------------------------------------------------------------------------


\* all byte buffers of length len
BytesOfLen(len) == [1..len -> 0..(ByteBase - 1)]

Bytes32 == BytesOfLen(KeyLen)

\* types.ts isZeroBytes
isZeroBytes(bytes) == \A i \in 1..Len(bytes) : bytes[i] = 0

\* types.ts bytesEqual
bytesEqual(a, b) == Len(a) = Len(b) /\ \A i \in 1..Len(a) : a[i] = b[i]

\* types.ts concatBytes
concatBytes(a, b) == a \o b

\* types.ts / noble.ts bytesToBigInt: result = (result << 8) | byte, left to right
RECURSIVE bytesToBigIntFrom(_, _, _)
bytesToBigIntFrom(bytes, i, result) ==
    IF i > Len(bytes) THEN result
    ELSE bytesToBigIntFrom(bytes, i + 1, result * ByteBase + bytes[i])

bytesToBigInt(bytes) == bytesToBigIntFrom(bytes, 1, 0)

\* n.toString(16): the hex digits of n, most significant first ("0" for 0)
RECURSIVE toStringHex(_)
toStringHex(n) ==
    IF n < HexBase THEN <<n>>
    ELSE Append(toStringHex(n \div HexBase), n % HexBase)

\* String.padStart(len, '0')
RECURSIVE padStart(_, _)
padStart(digits, len) ==
    IF Len(digits) >= len THEN digits ELSE padStart(<<0>> \o digits, len)

\* the hex digits of one byte, two per byte in the source
HexPerByte == 2

\* parseInt(hex.slice(from, from + HexPerByte), 16)
parseHexByte(hex, from) == hex[from] * HexBase + hex[from + 1]

\* noble.ts bigintToBytes32
bigintToBytes32(n) ==
    LET hex == padStart(toStringHex(n), HexPerByte * KeyLen)
    IN  [i \in 1..KeyLen |-> parseHexByte(hex, (i - 1) * HexPerByte + 1)]

\* ------------------------------------------------------------------------
\* The curve collaborator (@noble/curves, tiny-secp256k1): field and group
\* ------------------------------------------------------------------------

\* the point at infinity; an affine point is <<x, y>>
Infinity == <<>>

ModP(v) == v % EC_P

\* mod(a, N) of @noble/curves/abstract/modular
mod(v, m) == v % m

InvP(v) == CHOOSE w \in 1..(EC_P - 1) : (v * w) % EC_P = 1

InvN(v) == CHOOSE w \in 1..(EC_N - 1) : (v * w) % EC_N = 1

OnCurve(x, y) == (y * y) % EC_P = (x * x * x + CurveA * x + CurveB) % EC_P

\* Point.add
PointAdd(P, Q) ==
    IF P = Infinity THEN Q
    ELSE IF Q = Infinity THEN P
    ELSE IF P[1] = Q[1] /\ (P[2] + Q[2]) % EC_P = 0 THEN Infinity
    ELSE LET l == IF P = Q
                  THEN ModP((3 * P[1] * P[1] + CurveA) * InvP(ModP(2 * P[2])))
                  ELSE ModP((Q[2] - P[2]) * InvP(ModP(Q[1] - P[1])))
             x == ModP(l * l - P[1] - Q[1])
         IN  <<x, ModP(l * (P[1] - x) - P[2])>>


\* Point.BASE.multiply(k), by repeated addition
RECURSIVE MulG(_)
MulG(k) == IF k = 0 THEN Infinity ELSE PointAdd(MulG(k - 1), <<Gx, Gy>>)

\* the multiples of the generator, computed once
GTable == [k \in 0..(EC_N - 1) |-> MulG(k)]

\* P.multiply(k), by repeated addition
RECURSIVE PointMul(_, _)
PointMul(P, k) == IF k = 0 THEN Infinity ELSE PointAdd(PointMul(P, k - 1), P)

\* schnorr.utils.lift_x: the point of x-coordinate x with even y; FALSE in
\* .ok when x is not a field element in 1..p-1 or no point has that x
lift_x(x) ==
    IF x >= 1 /\ x < EC_P /\ \E y \in 0..(EC_P - 1) : OnCurve(x, y)
    THEN [ok |-> TRUE,
          point |-> <<x, CHOOSE y \in 0..(EC_P - 1) : OnCurve(x, y) /\ y % 2 = 0>>]
    ELSE [ok |-> FALSE, point |-> Infinity]

\* the point of x-coordinate x whose y has the given parity
\* (Point.fromHex on a compressed key)
Decompress(x, odd) ==
    IF x < EC_P /\ \E y \in 0..(EC_P - 1) : OnCurve(x, y)
    THEN [ok |-> TRUE,
          point |-> <<x, CHOOSE y \in 0..(EC_P - 1) :
                              OnCurve(x, y) /\ (y % 2 = 1) = odd>>]
    ELSE [ok |-> FALSE, point |-> Infinity]

\* length of a compressed / an uncompressed SEC1 key (33 / 65 in the source)
CompressedLen == 1 + KeyLen
UncompressedLen == 1 + 2 * KeyLen

\* Point.fromHex(toHex(p)) of @noble/curves: a compressed key with prefix
\* 2 or 3, or an uncompressed key with prefix 4, whose point is on the curve
PointFromBytes(p) ==
    IF Len(p) = CompressedLen /\ p[1] \in {2, 3}
    THEN Decompress(bytesToBigInt(SubSeq(p, 2, CompressedLen)), p[1] = 3)
    ELSE IF Len(p) = UncompressedLen /\ p[1] = 4
    THEN LET x == bytesToBigInt(SubSeq(p, 2, CompressedLen))
             y == bytesToBigInt(SubSeq(p, CompressedLen + 1, UncompressedLen))
         IN  IF x < EC_P /\ y < EC_P /\ OnCurve(x, y)
             THEN [ok |-> TRUE, point |-> <<x, y>>]
             ELSE [ok |-> FALSE, point |-> Infinity]
    ELSE [ok |-> FALSE, point |-> Infinity]

\* Point.toBytes(compressed); the point at infinity has no encoding
PointToBytes(P, compressed) ==
    IF compressed
    THEN <<IF P[2] % 2 = 1 THEN 3 ELSE 2>> \o bigintToBytes32(P[1])
    ELSE <<4>> \o bigintToBytes32(P[1]) \o bigintToBytes32(P[2])

\* secp256k1.utils.isValidSecretKey
isValidSecretKey(d) ==
    Len(d) = KeyLen /\ bytesToBigInt(d) > 0 /\ bytesToBigInt(d) < EC_N

\* secp256k1.getPublicKey(d, compressed): throws (.ok = FALSE) unless 0 < d < n
getPublicKey(d, compressed) ==
    IF isValidSecretKey(d)
    THEN [ok |-> TRUE, bytes |-> PointToBytes(GTable[bytesToBigInt(d)], compressed)]
    ELSE [ok |-> FALSE, bytes |-> <<>>]

\* bits2int_modN: the message hash as a scalar
HashScalar(h) == bytesToBigInt(h) % EC_N

\* the extra entropy as a number: 0 when absent, else 1 + its value
EntropyValue(e) == IF e = <<>> THEN 0 ELSE 1 + ByteBase * bytesToBigInt(e)

\* the i-th candidate of the deterministic nonce generator (RFC 6979's
\* HMAC-DRBG in the source): a function of hash, key and extra entropy, in 1..n-1
Nonce(z, d, e, i) == 1 + ((z + d + EntropyValue(e) + i) % (EC_N - 1))

\* the ECDSA signature (r, s) made with nonce k, s normalised to the low half
EcdsaWithNonce(z, d, k) ==
    LET r == GTable[k][1] % EC_N
        s == (InvN(k) * (z + r * d)) % EC_N
    IN  [r |-> r, s |-> IF 2 * s > EC_N THEN EC_N - s ELSE s]

\* the first nonce candidate from i on that gives r # 0 and s # 0
RECURSIVE EcdsaFrom(_, _, _, _)
EcdsaFrom(z, d, e, i) ==
    LET sig == EcdsaWithNonce(z, d, Nonce(z, d, e, i))
    IN  IF sig.r # 0 /\ sig.s # 0 THEN sig ELSE EcdsaFrom(z, d, e, i + 1)

\* secp256k1.sign(hash, d, {lowS: true, extraEntropy}): the compact signature r || s
EcdsaSign(h, d, e) ==
    LET sig == EcdsaFrom(HashScalar(h), bytesToBigInt(d), e, 0)
    IN  bigintToBytes32(sig.r) \o bigintToBytes32(sig.s)

\* length of a compact ECDSA / a Schnorr signature (64 in the source)
SigLen == 2 * KeyLen

\* secp256k1.verify(signature, hash, publicKey, {lowS: true})
EcdsaVerify(h, Q, signature) ==
    /\ Len(signature) = SigLen
    /\ PointFromBytes(Q).ok
    /\ LET r == bytesToBigInt(SubSeq(signature, 1, KeyLen))
           s == bytesToBigInt(SubSeq(signature, KeyLen + 1, SigLen))
       IN  /\ r > 0 /\ r < EC_N /\ s > 0 /\ 2 * s < EC_N
           /\ LET w == InvN(s)
                  u1 == (HashScalar(h) * w) % EC_N
                  u2 == (r * w) % EC_N
                  X == PointAdd(GTable[u1], PointMul(PointFromBytes(Q).point, u2))
              IN  X # Infinity /\ X[1] % EC_N = r

\* the BIP340 challenge e = H(R.x || P.x || m) mod n
Challenge(rx, px, m) == (rx + 2 * px + 3 * m) % EC_N

\* schnorr.sign(hash, d, auxRand): R.x || s, with key and nonce normalised to even y
SchnorrSign(h, d, aux) ==
    LET d0 == bytesToBigInt(d)
        P == GTable[d0]
        dd == IF P[2] % 2 = 0 THEN d0 ELSE EC_N - d0
        k0 == 1 + ((dd + bytesToBigInt(h) + bytesToBigInt(aux)) % (EC_N - 1))
        R == GTable[k0]
        k == IF R[2] % 2 = 0 THEN k0 ELSE EC_N - k0
        e == Challenge(R[1], P[1], bytesToBigInt(h))
    IN  bigintToBytes32(R[1]) \o bigintToBytes32((k + e * dd) % EC_N)

\* schnorr.verify(signature, hash, xOnlyPublicKey)
SchnorrVerify(signature, h, px) ==
    /\ Len(signature) = SigLen
    /\ Len(px) = KeyLen
    /\ lift_x(bytesToBigInt(px)).ok
    /\ LET P == lift_x(bytesToBigInt(px)).point
           r == bytesToBigInt(SubSeq(signature, 1, KeyLen))
           s == bytesToBigInt(SubSeq(signature, KeyLen + 1, SigLen))
           e == Challenge(r, P[1], bytesToBigInt(h))
       IN  /\ r < EC_P /\ s < EC_N
           /\ LET R == PointAdd(GTable[s], PointMul(P, (EC_N - e) % EC_N))
              IN  R # Infinity /\ R[2] % 2 = 0 /\ R[1] = r

\* ------------------------------------------------------------------------
\* tiny-secp256k1, the curve library behind LegacyBackend.  A call that
\* the library rejects by throwing has status "throw".
\* ------------------------------------------------------------------------

\* a tweak the library accepts: 32 bytes, below the group order (zero allowed)
Tiny_isTweak(t) == Len(t) = KeyLen /\ bytesToBigInt(t) < EC_N

Tiny_xOnlyPointAddTweak(p, tweak) ==
    IF ~(Len(p) = KeyLen /\ lift_x(bytesToBigInt(p)).ok)
    THEN [status |-> "throw", err |-> "Expected Point", parity |-> 0, xOnlyPubkey |-> <<>>]
    ELSE IF ~Tiny_isTweak(tweak)
    THEN [status |-> "throw", err |-> "Expected Tweak", parity |-> 0, xOnlyPubkey |-> <<>>]
    ELSE LET R == PointAdd(lift_x(bytesToBigInt(p)).point, GTable[bytesToBigInt(tweak)])
         IN  IF R = Infinity
             THEN [status |-> "null", err |-> "", parity |-> 0, xOnlyPubkey |-> <<>>]
             ELSE [status |-> "ok", err |-> "", parity |-> R[2] % 2,
                   xOnlyPubkey |-> bigintToBytes32(R[1])]

Tiny_privateAdd(d, tweak) ==
    IF ~isValidSecretKey(d)
    THEN [status |-> "throw", err |-> "Expected Private", bytes |-> <<>>]
    ELSE IF ~Tiny_isTweak(tweak)
    THEN [status |-> "throw", err |-> "Expected Tweak", bytes |-> <<>>]
    ELSE LET r == (bytesToBigInt(d) + bytesToBigInt(tweak)) % EC_N
         IN  IF r = 0 THEN [status |-> "null", err |-> "", bytes |-> <<>>]
             ELSE [status |-> "ok", err |-> "", bytes |-> bigintToBytes32(r)]

Tiny_privateNegate(d) == bigintToBytes32((EC_N - bytesToBigInt(d)) % EC_N)

\* ------------------------------------------------------------------------
\* NobleBackend (noble.ts)
\* ------------------------------------------------------------------------

Noble_isPrivate(d) == isValidSecretKey(d)

Noble_isPoint(p) == PointFromBytes(p).ok

\* null is the empty buffer
Noble_pointFromScalar(d, compressed) ==
    IF getPublicKey(d, compressed).ok THEN getPublicKey(d, compressed).bytes ELSE <<>>

Noble_pointCompress(p, compressed) ==
    PointToBytes(PointFromBytes(p).point, compressed)

\* every throw inside the try block (lift_x of a bad x, getPublicKey of the
\* zero tweak, the encoding of the point at infinity) is caught and gives null
Noble_xOnlyPointAddTweak(p, tweak) ==
    LET null == [status |-> "null", err |-> "", parity |-> 0, xOnlyPubkey |-> <<>>]
        point == lift_x(bytesToBigInt(p))
        tweakBigint == bytesToBigInt(tweak)
        tweakPub == getPublicKey(tweak, TRUE)
    IN  IF ~point.ok THEN null
        ELSE IF tweakBigint >= EC_N THEN null
        ELSE IF ~tweakPub.ok THEN null
        ELSE LET tweakPoint == PointFromBytes(tweakPub.bytes).point
                 result == PointAdd(point.point, tweakPoint)
             IN  IF result = Infinity THEN null
                 ELSE [status |-> "ok", err |-> "", parity |-> result[2] % 2,
                       xOnlyPubkey |-> bigintToBytes32(result[1])]

Noble_privateAdd(d, tweak) ==
    LET dBigint == bytesToBigInt(d)
        tweakBigint == bytesToBigInt(tweak)
        result == mod(dBigint + tweakBigint, EC_N)
    IN  IF result = 0 THEN [status |-> "null", err |-> "", bytes |-> <<>>]
        ELSE [status |-> "ok", err |-> "", bytes |-> bigintToBytes32(result)]

\* a faulty privateNegate: the field prime is taken for the group order
Noble_privateNegateModP(d) == bigintToBytes32(mod(EC_P - bytesToBigInt(d), EC_P))

Noble_privateNegate(d) ==
    LET dBigint == bytesToBigInt(d)
        result == mod(EC_N - dBigint, EC_N)
    IN  bigintToBytes32(result)

\* ------------------------------------------------------------------------
\* Backends.  A backend is a record: adapter is "noble" (NobleBackend),
\* "legacy" (LegacyBackend over a tiny-secp256k1-like library) or "custom"
\* (a caller's own CryptoBackend with only the mandatory operations);
\* eccSignSchnorr / eccVerifySchnorr tell whether the curve library behind
\* the adapter has the optional Schnorr functions.
\* ------------------------------------------------------------------------

NobleBackend == [adapter |-> "noble", eccSignSchnorr |-> TRUE, eccVerifySchnorr |-> TRUE]

LegacyBackend(signSchnorr, verifySchnorr) ==
    [adapter |-> "legacy", eccSignSchnorr |-> signSchnorr, eccVerifySchnorr |-> verifySchnorr]

CustomBackend == [adapter |-> "custom", eccSignSchnorr |-> FALSE, eccVerifySchnorr |-> FALSE]

\* a caller's CryptoBackend whose sign returns, whatever it is given, one
\* signature with a first byte above the low-R threshold
HighRBackend == [adapter |-> "highR", eccSignSchnorr |-> FALSE, eccVerifySchnorr |-> FALSE]

HighRSignature == [k \in 1..SigLen |-> IF k = 1 THEN LowRMax + 1 ELSE 1]

\* backend.signSchnorr is defined: both adapter classes define the method
HasSignSchnorr(b) == b.adapter \in {"noble", "legacy"}

\* backend.verifySchnorr is defined
HasVerifySchnorr(b) == b.adapter \in {"noble", "legacy"}

\* backend.generatePrivateKey is defined: NobleBackend only
HasGeneratePrivateKey(b) == b.adapter = "noble"

\* LegacyBackend.hasSchnorrSign / hasSchnorrVerify
hasSchnorrSign(b) == b.eccSignSchnorr

hasSchnorrVerify(b) == b.eccVerifySchnorr

\* a faulty isPrivate: every 32-byte value is accepted
isPrivateAnyBytes32(b, d) == Len(d) = KeyLen

B_isPrivate(b, d) == IF b.adapter = "noble" THEN Noble_isPrivate(d) ELSE isValidSecretKey(d)

B_isPoint(b, p) == IF b.adapter = "noble" THEN Noble_isPoint(p) ELSE PointFromBytes(p).ok

B_pointFromScalar(b, d, compressed) ==
    IF b.adapter = "noble" THEN Noble_pointFromScalar(d, compressed)
    ELSE IF isValidSecretKey(d) THEN getPublicKey(d, compressed).bytes ELSE <<>>

B_pointCompress(b, p, compressed) ==
    IF b.adapter = "noble" THEN Noble_pointCompress(p, compressed)
    ELSE PointToBytes(PointFromBytes(p).point, compressed)

B_xOnlyPointAddTweak(b, p, tweak) ==
    IF b.adapter = "noble" THEN Noble_xOnlyPointAddTweak(p, tweak)
    ELSE Tiny_xOnlyPointAddTweak(p, tweak)

\* a faulty privateAdd: a sum of zero is returned as a key
privateAddZero(b, d, tweak) ==
    [status |-> "ok", err |-> "",
     bytes |-> bigintToBytes32((bytesToBigInt(d) + bytesToBigInt(tweak)) % EC_N)]

B_privateAdd(b, d, tweak) ==
    IF b.adapter = "noble" THEN Noble_privateAdd(d, tweak) ELSE Tiny_privateAdd(d, tweak)

B_privateNegate(b, d) ==
    IF b.adapter = "noble" THEN Noble_privateNegate(d) ELSE Tiny_privateNegate(d)

\* backend.sign(hash, privateKey, extraEntropy): extraEntropy is <<>> when absent
B_sign(b, h, d, e) == IF b.adapter = "highR" THEN HighRSignature ELSE EcdsaSign(h, d, e)

B_verify(b, h, Q, signature) == EcdsaVerify(h, Q, signature)

\* backend.signSchnorr(hash, privateKey) with the auxiliary randomness aux the
\* curve library uses: LegacyBackend throws when the library has no signSchnorr
B_signSchnorr(b, h, d, aux) ==
    IF b.adapter = "legacy" /\ ~b.eccSignSchnorr
    THEN [status |-> "throw", err |-> "signSchnorr not supported by ecc library", bytes |-> <<>>]
    ELSE [status |-> "ok", err |-> "", bytes |-> SchnorrSign(h, d, aux)]

B_verifySchnorr(b, h, px, signature) ==
    IF b.adapter = "legacy" /\ ~b.eccVerifySchnorr
    THEN [status |-> "throw", err |-> "verifySchnorr not supported by ecc library", val |-> FALSE]
    ELSE [status |-> "ok", err |-> "", val |-> SchnorrVerify(signature, h, px)]

\* ------------------------------------------------------------------------
\* Validated byte types (types.ts)
\* ------------------------------------------------------------------------

\* types.ts isPrivateKey
isPrivateKey(value) ==
    IF Len(value) # KeyLen THEN FALSE
    ELSE IF isZeroBytes(value) THEN FALSE
    ELSE bytesToBigInt(value) < EC_N

\* types.ts isPublicKey
isPublicKey(value) ==
    IF Len(value) = CompressedLen /\ value[1] \in {2, 3} THEN TRUE
    ELSE IF Len(value) = UncompressedLen /\ value[1] \in {4, 6, 7} THEN TRUE
    ELSE FALSE

\* lengths of a Bytes20 and of the shortest and the longest DER signature
\* (20, 8 and 73 in the source), and the greatest Satoshi (21 * 10^14)
Bytes20Len == 1
SignatureMinLen == 1
SignatureMaxLen == 6
SATOSHI_MAX == 21

\* types.ts isBytes32, isBytes20, isXOnlyPublicKey, isSignature,
\* isSchnorrSignature, isMessageHash on the bytes of a Uint8Array
isBytes32(value) == Len(value) = KeyLen

isBytes20(value) == Len(value) = Bytes20Len

isXOnlyPublicKey(value) ==
    IF Len(value) # KeyLen THEN FALSE ELSE ~isZeroBytes(value)

isSignature(value) == Len(value) >= SignatureMinLen /\ Len(value) <= SignatureMaxLen

isSchnorrSignature(value) == Len(value) = SigLen

isMessageHash(value) == Len(value) = KeyLen

\* types.ts isSatoshi on the value of a bigint
isSatoshi(value) == value >= 0 /\ value <= SATOSHI_MAX

\* a faulty assertPrivateKey: the zero key passes
createPrivateKeyAllowsZero(value) ==
    IF Len(value) # KeyLen THEN "assertPrivateKey: expected 32 bytes"
    ELSE IF bytesToBigInt(value) >= EC_N THEN "assertPrivateKey: key not in range [1, n)"
    ELSE ""

\* types.ts assertPrivateKey / createPrivateKey: the error thrown, "" if none
createPrivateKey(value) ==
    IF Len(value) # KeyLen THEN "assertPrivateKey: expected 32 bytes"
    ELSE IF isZeroBytes(value) THEN "assertPrivateKey: key is zero"
    ELSE IF bytesToBigInt(value) >= EC_N THEN "assertPrivateKey: key not in range [1, n)"
    ELSE ""

\* types.ts assertPublicKey / createPublicKey: the error thrown, "" if none
createPublicKey(value) ==
    IF ~isPublicKey(value) THEN "assertPublicKey: invalid SEC1 public key" ELSE ""

\* types.ts assertBytes32 / createBytes32
createBytes32(value) ==
    IF Len(value) # KeyLen THEN "assertBytes32: expected 32 bytes" ELSE ""

\* types.ts createBytes20
createBytes20(value) ==
    IF Len(value) # Bytes20Len THEN "createBytes20: expected 20 bytes Uint8Array" ELSE ""

\* types.ts assertXOnlyPublicKey / createXOnlyPublicKey
createXOnlyPublicKey(value) ==
    IF Len(value) # KeyLen THEN "assertXOnlyPublicKey: expected 32 bytes"
    ELSE IF isZeroBytes(value) THEN "assertXOnlyPublicKey: key is zero"
    ELSE ""

\* types.ts createSignature
createSignature(value) ==
    IF ~isSignature(value) THEN "createSignature: expected 8-73 bytes" ELSE ""

\* types.ts createSchnorrSignature
createSchnorrSignature(value) ==
    IF ~isSchnorrSignature(value) THEN "createSchnorrSignature: expected 64 bytes" ELSE ""

\* types.ts assertMessageHash / createMessageHash
createMessageHash(value) ==
    IF Len(value) # KeyLen THEN "assertMessageHash: expected 32 bytes" ELSE ""

\* types.ts createSatoshi
createSatoshi(value) ==
    IF ~isSatoshi(value) THEN "createSatoshi: value out of range" ELSE ""

\* the validated types
TypeNames ==
    {"Bytes32", "Bytes20", "PrivateKey", "PublicKey", "XOnlyPublicKey", "Signature",
     "SchnorrSignature", "MessageHash", "Satoshi"}

\* A value that a caller passes: kind is what the value is ("Uint8Array",
\* "Array" for a plain array of numbers, "bigint", "number"), bytes its
\* elements and n its numeric value.  isX(v): every guard tests
\* `value instanceof Uint8Array` (isSatoshi: typeof value === 'bigint') first.
isType(X, v) ==
    IF X = "Satoshi" THEN v.kind = "bigint" /\ isSatoshi(v.n)
    ELSE IF v.kind # "Uint8Array" THEN FALSE
    ELSE CASE X = "Bytes32" -> isBytes32(v.bytes)
           [] X = "Bytes20" -> isBytes20(v.bytes)
           [] X = "PrivateKey" -> isPrivateKey(v.bytes)
           [] X = "PublicKey" -> isPublicKey(v.bytes)
           [] X = "XOnlyPublicKey" -> isXOnlyPublicKey(v.bytes)
           [] X = "Signature" -> isSignature(v.bytes)
           [] X = "SchnorrSignature" -> isSchnorrSignature(v.bytes)
           [] X = "MessageHash" -> isMessageHash(v.bytes)

\* createX(v): the error thrown, "" if v is returned.  The assert functions
\* throw 'expected Uint8Array' first; createBytes20, createSignature and
\* createSchnorrSignature throw their one message; createSatoshi tests isSatoshi.
createType(X, v) ==
    IF X = "Satoshi"
    THEN (IF v.kind # "bigint" THEN "createSatoshi: value out of range"
          ELSE createSatoshi(v.n))
    ELSE IF v.kind # "Uint8Array"
    THEN CASE X = "Bytes32" -> "assertBytes32: expected Uint8Array"
           [] X = "Bytes20" -> "createBytes20: expected 20 bytes Uint8Array"
           [] X = "PrivateKey" -> "assertPrivateKey: expected Uint8Array"
           [] X = "PublicKey" -> "assertPublicKey: expected Uint8Array"
           [] X = "XOnlyPublicKey" -> "assertXOnlyPublicKey: expected Uint8Array"
           [] X = "Signature" -> "createSignature: expected 8-73 bytes"
           [] X = "SchnorrSignature" -> "createSchnorrSignature: expected 64 bytes"
           [] X = "MessageHash" -> "assertMessageHash: expected Uint8Array"
    ELSE CASE X = "Bytes32" -> createBytes32(v.bytes)
           [] X = "Bytes20" -> createBytes20(v.bytes)
           [] X = "PrivateKey" -> createPrivateKey(v.bytes)
           [] X = "PublicKey" -> createPublicKey(v.bytes)
           [] X = "XOnlyPublicKey" -> createXOnlyPublicKey(v.bytes)
           [] X = "Signature" -> createSignature(v.bytes)
           [] X = "SchnorrSignature" -> createSchnorrSignature(v.bytes)
           [] X = "MessageHash" -> createMessageHash(v.bytes)

\* ------------------------------------------------------------------------
\* Networks (networks.ts) and the WIF codec (wif.ts)
\* ------------------------------------------------------------------------

NetworkNames == {"bitcoin", "testnet", "regtest"}

\* the wif version byte of networks.bitcoin / testnet / regtest
WifVersion(network) == IF network = "bitcoin" THEN 128 ELSE 239

\* the checksum bs58check appends to a payload (4 bytes of a double SHA-256
\* in the source): a function of every byte of the payload
RECURSIVE Checksum(_)
Checksum(payload) ==
    IF payload = <<>> THEN 1
    ELSE (3 * Checksum(SubSeq(payload, 1, Len(payload) - 1)) + payload[Len(payload)]) % ByteBase

\* wif.encode({version, privateKey, compressed}): the checked payload
\* version || key || [1 if compressed] || checksum
wif_encode(version, privateKey, compressed) ==
    LET payload == <<version>> \o privateKey \o (IF compressed THEN <<1>> ELSE <<>>)
    IN  Append(payload, Checksum(payload))

\* wif.decode(string): bs58check rejects a bad checksum, then the payload is
\* version || key (uncompressed) or version || key || 1 (compressed)
wif_decode(w) ==
    LET bad(e) == [ok |-> FALSE, err |-> e, version |-> 0, privateKey |-> <<>>,
                   compressed |-> FALSE]
        payload == SubSeq(w, 1, Len(w) - 1)
    IN  IF Len(w) < 1 \/ w[Len(w)] # Checksum(payload) THEN bad("Invalid checksum")
        ELSE IF Len(payload) = 1 + KeyLen
        THEN [ok |-> TRUE, err |-> "", version |-> payload[1],
              privateKey |-> SubSeq(payload, 2, 1 + KeyLen), compressed |-> FALSE]
        ELSE IF Len(payload) # 2 + KeyLen THEN bad("Invalid WIF length")
        ELSE IF payload[2 + KeyLen] # 1 THEN bad("Invalid compression flag")
        ELSE [ok |-> TRUE, err |-> "", version |-> payload[1],
              privateKey |-> SubSeq(payload, 2, 1 + KeyLen), compressed |-> TRUE]

\* a faulty encodeWIF: the compression flag is always written
encodeWIFFlagged(privateKey, compressed, network) ==
    wif_encode(WifVersion(network), privateKey, TRUE)

\* wif.ts encodeWIF
encodeWIF(privateKey, compressed, network) ==
    wif_encode(WifVersion(network), privateKey, compressed)

\* a faulty find: the last network of the list with that version
RECURSIVE findLast(_, _)
findLast(nets, version) ==
    IF nets = <<>> THEN ""
    ELSE IF WifVersion(nets[Len(nets)]) = version THEN nets[Len(nets)]
    ELSE findLast(SubSeq(nets, 1, Len(nets) - 1), version)

\* Array.prototype.find: the first network of the list with that version,
\* "" (undefined) if none
RECURSIVE find(_, _)
find(nets, version) ==
    IF nets = <<>> THEN ""
    ELSE IF WifVersion(Head(nets)) = version THEN Head(nets)
    ELSE find(Tail(nets), version)

\* a faulty decodeWIF: the version byte is not compared with that of a single
\* network
decodeWIFAnyVersion(wifString, network) ==
    LET decoded == wif_decode(wifString)
        bad(e) == [ok |-> FALSE, err |-> e, privateKey |-> <<>>, compressed |-> FALSE,
                   network |-> ""]
        good(net) == IF createPrivateKey(decoded.privateKey) # ""
                     THEN bad(createPrivateKey(decoded.privateKey))
                     ELSE [ok |-> TRUE, err |-> "", privateKey |-> decoded.privateKey,
                           compressed |-> decoded.compressed, network |-> net]
    IN  IF ~decoded.ok THEN bad(decoded.err)
        ELSE IF ~network.isList THEN good(network.nets[1])
        ELSE IF find(network.nets, decoded.version) = "" THEN bad("Unknown network version")
        ELSE good(find(network.nets, decoded.version))

\* wif.ts decodeWIF.  network is [isList |-> BOOLEAN, nets |-> a sequence of
\* network names]: a list, or the single network nets[1]
decodeWIF(wifString, network) ==
    LET decoded == wif_decode(wifString)
        version == decoded.version
        bad(e) == [ok |-> FALSE, err |-> e, privateKey |-> <<>>, compressed |-> FALSE,
                   network |-> ""]
    IN  IF ~decoded.ok THEN bad(decoded.err)
        ELSE IF network.isList
        THEN LET matched == find(network.nets, version)
             IN  IF matched = "" THEN bad("Unknown network version")
                 ELSE IF createPrivateKey(decoded.privateKey) # ""
                 THEN bad(createPrivateKey(decoded.privateKey))
                 ELSE [ok |-> TRUE, err |-> "", privateKey |-> decoded.privateKey,
                       compressed |-> decoded.compressed, network |-> matched]
        ELSE LET net == network.nets[1]
             IN  IF version # WifVersion(net) THEN bad("Invalid network version")
                 ELSE IF createPrivateKey(decoded.privateKey) # ""
                 THEN bad(createPrivateKey(decoded.privateKey))
                 ELSE [ok |-> TRUE, err |-> "", privateKey |-> decoded.privateKey,
                       compressed |-> decoded.compressed, network |-> net]

\* ------------------------------------------------------------------------
\* ECPairSigner (signer.ts): the object and its pure parts.
\*
\* A signer is a record: backend, privateKey (<<>> when undefined), network,
\* compressed, the caches publicKey and xOnlyPublicKey (<<>> when not yet
\* set), capsCached / capabilities, and three history fields that the program
\* does not hold: derivations, the number of backend.pointFromScalar calls
\* made for this signer, and parent, the index of the signer whose tweak
\* made this one (0 if none), and origin, the call that made it.
\*
\* An option that may be undefined is a sequence of length 0 or 1.
\* The outcome of a call is a record with ok, err (the message thrown) and
\* log, the sequence of backend and codec calls it made.
\* ------------------------------------------------------------------------

NoOptions == [compressed |-> <<>>, network |-> <<>>]

\* a faulty toXOnly: the prefix byte is kept and the last byte dropped
toXOnlyKeepsPrefix(pubKey) == SubSeq(pubKey, 1, KeyLen)

\* signer.ts toXOnly
toXOnly(pubKey) == IF Len(pubKey) = KeyLen THEN pubKey ELSE SubSeq(pubKey, 2, 1 + KeyLen)

\* the constructor
Construct(backend, privateKey, publicKey, options) ==
    LET compressed == IF options.compressed = <<>> THEN TRUE ELSE options.compressed[1]
        network == IF options.network = <<>> THEN "bitcoin" ELSE options.network[1]
    IN  [backend |-> backend,
         privateKey |-> privateKey,
         compressed |-> compressed,
         network |-> network,
         publicKey |-> IF publicKey # <<>>
                       THEN B_pointCompress(backend, publicKey, compressed)
                       ELSE <<>>,
         xOnlyPublicKey |-> <<>>,
         capsCached |-> FALSE,
         capabilities |-> {},
         derivations |-> 0,
         parent |-> 0,
         origin |-> [op |-> "none", args |-> <<>>]]

Call(fn, arg) == [fn |-> fn, arg |-> arg]

NoSigner == Construct(CustomBackend, <<>>, <<>>, NoOptions)

\* a faulty fromPrivateKey: the key is not checked
fromPrivateKeyUnchecked(backend, privateKey, options) ==
    [ok |-> TRUE, err |-> "",
     signer |-> Construct(backend, privateKey, <<>>, options),
     log |-> <<>>]

\* static fromPrivateKey
fromPrivateKey(backend, privateKey, options) ==
    IF ~B_isPrivate(backend, privateKey)
    THEN [ok |-> FALSE, err |-> "Private key not in range [1, n)", signer |-> NoSigner,
          log |-> <<Call("isPrivate", privateKey)>>]
    ELSE [ok |-> TRUE, err |-> "",
          signer |-> Construct(backend, privateKey, <<>>, options),
          log |-> <<Call("isPrivate", privateKey)>>]

\* a faulty fromPublicKey: the key is compressed before it is checked
fromPublicKeyLateCheck(backend, publicKey, options) ==
    IF ~B_isPoint(backend, publicKey)
    THEN [ok |-> FALSE, err |-> "Point not on the curve", signer |-> NoSigner,
          log |-> <<Call("pointCompress", publicKey), Call("isPoint", publicKey)>>]
    ELSE [ok |-> TRUE, err |-> "",
          signer |-> Construct(backend, <<>>, publicKey, options),
          log |-> <<Call("pointCompress", publicKey), Call("isPoint", publicKey)>>]

\* static fromPublicKey
fromPublicKey(backend, publicKey, options) ==
    IF ~B_isPoint(backend, publicKey)
    THEN [ok |-> FALSE, err |-> "Point not on the curve", signer |-> NoSigner,
          log |-> <<Call("isPoint", publicKey)>>]
    ELSE [ok |-> TRUE, err |-> "",
          signer |-> Construct(backend, <<>>, publicKey, options),
          log |-> <<Call("isPoint", publicKey), Call("pointCompress", publicKey)>>]

\* static fromWIF.  network is <<>> (undefined) or <<n>>, n a network argument
\* of decodeWIF
fromWIF(backend, wifString, network) ==
    LET defaultNetwork == IF network = <<>>
                          THEN [isList |-> FALSE, nets |-> <<"bitcoin">>]
                          ELSE network[1]
        decoded == decodeWIF(wifString, defaultNetwork)
    IN  IF ~decoded.ok
        THEN [ok |-> FALSE, err |-> decoded.err, signer |-> NoSigner,
              log |-> <<Call("decodeWIF", wifString)>>]
        ELSE LET made == fromPrivateKey(backend, decoded.privateKey,
                             [compressed |-> <<decoded.compressed>>,
                              network |-> <<decoded.network>>])
             IN  [made EXCEPT !.log = <<Call("decodeWIF", wifString)>> \o @]

\* a faulty getter: the derived key is returned and not kept
getPublicKeyUncached(s) ==
    IF s.publicKey # <<>>
    THEN [ok |-> TRUE, err |-> "", val |-> s.publicKey, signer |-> s, log |-> <<>>]
    ELSE IF s.privateKey = <<>>
    THEN [ok |-> FALSE, err |-> "Missing both private and public key", val |-> <<>>,
          signer |-> s, log |-> <<>>]
    ELSE [ok |-> TRUE, err |-> "",
          val |-> B_pointFromScalar(s.backend, s.privateKey, s.compressed),
          signer |-> [s EXCEPT !.derivations = @ + 1],
          log |-> <<Call("pointFromScalar", s.privateKey)>>]

\* a faulty getter: the compressed flag is not passed to pointFromScalar
getPublicKeyIgnoresFlag(s) ==
    IF s.publicKey # <<>>
    THEN [ok |-> TRUE, err |-> "", val |-> s.publicKey, signer |-> s, log |-> <<>>]
    ELSE IF s.privateKey = <<>>
    THEN [ok |-> FALSE, err |-> "Missing both private and public key", val |-> <<>>,
          signer |-> s, log |-> <<>>]
    ELSE [ok |-> TRUE, err |-> "",
          val |-> B_pointFromScalar(s.backend, s.privateKey, TRUE),
          signer |-> [s EXCEPT !.derivations = @ + 1,
                               !.publicKey = B_pointFromScalar(s.backend, s.privateKey, TRUE)],
          log |-> <<Call("pointFromScalar", s.privateKey)>>]

\* get publicKey: the value, and the signer with its cache filled
getPublicKeyOf(s) ==
    IF s.publicKey # <<>>
    THEN [ok |-> TRUE, err |-> "", val |-> s.publicKey, signer |-> s, log |-> <<>>]
    ELSE IF s.privateKey = <<>>
    THEN [ok |-> FALSE, err |-> "Missing both private and public key", val |-> <<>>,
          signer |-> s, log |-> <<>>]
    ELSE LET p == B_pointFromScalar(s.backend, s.privateKey, s.compressed)
             counted == [s EXCEPT !.derivations = @ + 1]
         IN  IF p = <<>>
             THEN [ok |-> FALSE, err |-> "Failed to derive public key from private key",
                   val |-> <<>>, signer |-> counted,
                   log |-> <<Call("pointFromScalar", s.privateKey)>>]
             ELSE [ok |-> TRUE, err |-> "", val |-> p,
                   signer |-> [counted EXCEPT !.publicKey = p],
                   log |-> <<Call("pointFromScalar", s.privateKey)>>]

\* get xOnlyPublicKey
getXOnlyPublicKeyOf(s) ==
    IF s.xOnlyPublicKey # <<>>
    THEN [ok |-> TRUE, err |-> "", val |-> s.xOnlyPublicKey, signer |-> s, log |-> <<>>]
    ELSE LET pk == getPublicKeyOf(s)
         IN  IF ~pk.ok THEN pk
             ELSE [pk EXCEPT !.val = toXOnly(pk.val),
                             !.signer = [pk.signer EXCEPT !.xOnlyPublicKey = toXOnly(pk.val)]]

\* get capabilities: the set computed on the first read
computeCapabilities(s) ==
    {"EcdsaVerify", "PublicKeyTweak"}
    \cup (IF s.privateKey # <<>> THEN {"EcdsaSign", "PrivateKeyExport"} ELSE {})
    \cup (IF HasSignSchnorr(s.backend) /\ s.privateKey # <<>> THEN {"SchnorrSign"} ELSE {})
    \cup (IF HasVerifySchnorr(s.backend) THEN {"SchnorrVerify"} ELSE {})

getCapabilitiesOf(s) ==
    IF s.capsCached
    THEN [ok |-> TRUE, err |-> "", val |-> s.capabilities, signer |-> s, log |-> <<>>]
    ELSE [ok |-> TRUE, err |-> "", val |-> computeCapabilities(s),
          signer |-> [s EXCEPT !.capsCached = TRUE,
                               !.capabilities = computeCapabilities(s)],
          log |-> <<>>]

\* a faulty signSchnorr: the backend's support is tested before the key
signSchnorrSupportFirst(s, hash, aux) ==
    IF ~HasSignSchnorr(s.backend)
    THEN [ok |-> FALSE, err |-> "signSchnorr not supported by ecc library", val |-> <<>>,
          signer |-> s, log |-> <<>>]
    ELSE IF s.privateKey = <<>>
    THEN [ok |-> FALSE, err |-> "Missing private key", val |-> <<>>, signer |-> s,
          log |-> <<>>]
    ELSE [ok |-> B_signSchnorr(s.backend, hash, s.privateKey, aux).status = "ok",
          err |-> B_signSchnorr(s.backend, hash, s.privateKey, aux).err,
          val |-> B_signSchnorr(s.backend, hash, s.privateKey, aux).bytes, signer |-> s,
          log |-> <<Call("signSchnorr", hash)>>]

\* signSchnorr(hash); aux is the auxiliary randomness of the curve library
signSchnorr(s, hash, aux) ==
    IF s.privateKey = <<>>
    THEN [ok |-> FALSE, err |-> "Missing private key", val |-> <<>>, signer |-> s,
          log |-> <<>>]
    ELSE IF ~HasSignSchnorr(s.backend)
    THEN [ok |-> FALSE, err |-> "signSchnorr not supported by ecc library", val |-> <<>>,
          signer |-> s, log |-> <<>>]
    ELSE LET r == B_signSchnorr(s.backend, hash, s.privateKey, aux)
         IN  [ok |-> r.status = "ok", err |-> r.err, val |-> r.bytes, signer |-> s,
              log |-> <<Call("signSchnorr", hash)>>]

\* verify(hash, signature)
verify(s, hash, signature) ==
    LET pk == getPublicKeyOf(s)
    IN  IF ~pk.ok THEN [pk EXCEPT !.val = FALSE]
        ELSE [ok |-> TRUE, err |-> "",
              val |-> B_verify(s.backend, hash, pk.val, signature),
              signer |-> pk.signer, log |-> Append(pk.log, Call("verify", pk.val))]

\* a faulty verifySchnorr: the whole public key is passed to the backend
verifySchnorrWholeKey(s, hash, signature) ==
    IF ~HasVerifySchnorr(s.backend)
    THEN [ok |-> FALSE, err |-> "verifySchnorr not supported by ecc library",
          val |-> FALSE, signer |-> s, log |-> <<>>]
    ELSE LET pk == getPublicKeyOf(s)
         IN  IF ~pk.ok THEN [pk EXCEPT !.val = FALSE]
             ELSE [ok |-> B_verifySchnorr(s.backend, hash, pk.val, signature).status = "ok",
                   err |-> B_verifySchnorr(s.backend, hash, pk.val, signature).err,
                   val |-> FALSE,
                   signer |-> pk.signer,
                   log |-> Append(pk.log, Call("verifySchnorr", pk.val))]

\* verifySchnorr(hash, signature)
verifySchnorr(s, hash, signature) ==
    IF ~HasVerifySchnorr(s.backend)
    THEN [ok |-> FALSE, err |-> "verifySchnorr not supported by ecc library",
          val |-> FALSE, signer |-> s, log |-> <<>>]
    ELSE LET xo == getXOnlyPublicKeyOf(s)
         IN  IF ~xo.ok THEN [xo EXCEPT !.val = FALSE]
             ELSE LET r == B_verifySchnorr(s.backend, hash, xo.val, signature)
                  IN  [ok |-> r.status = "ok", err |-> r.err, val |-> r.val,
                       signer |-> xo.signer,
                       log |-> Append(xo.log, Call("verifySchnorr", xo.val))]

\* toWIF()
toWIF(s) ==
    IF s.privateKey = <<>>
    THEN [ok |-> FALSE, err |-> "Missing private key", val |-> <<>>, signer |-> s,
          log |-> <<>>]
    ELSE [ok |-> TRUE, err |-> "",
          val |-> encodeWIF(s.privateKey, s.compressed, s.network),
          signer |-> s, log |-> <<Call("encodeWIF", s.privateKey)>>]

\* whether the public key has odd y (#tweakFromPrivateKey)
hasOddY(pubKey) ==
    pubKey[1] = 3
    \/ (pubKey[1] = 4 /\ Len(pubKey) = UncompressedLen
        /\ pubKey[UncompressedLen] % 2 = 1)

\* #tweakFromPrivateKey(t): made is the new signer when ok
tweakFromPrivateKey(s, t) ==
    LET fail(pk, e, log) ==
            [ok |-> FALSE, err |-> e, made |-> NoSigner, signer |-> pk.signer, log |-> log]
        constructed(pk, log, made) ==
            [ok |-> made.ok, err |-> made.err, made |-> made.signer, signer |-> pk.signer,
             log |-> log \o made.log]
        added(pk, log, tweakedPrivateKey) ==
            IF tweakedPrivateKey.status = "throw" THEN fail(pk, tweakedPrivateKey.err, log)
            ELSE IF tweakedPrivateKey.status = "null"
            THEN fail(pk, "Invalid tweaked private key!", log)
            ELSE constructed(pk, log,
                     fromPrivateKey(s.backend, tweakedPrivateKey.bytes,
                         [network |-> <<s.network>>, compressed |-> <<s.compressed>>]))
        negated(pk, log, effectiveKey) ==
            added(pk, Append(log, Call("privateAdd", effectiveKey)),
                  B_privateAdd(s.backend, effectiveKey, t))
        derived(pk) ==
            IF ~pk.ok THEN fail(pk, pk.err, pk.log)
            ELSE negated(pk,
                     IF hasOddY(pk.val)
                     THEN Append(pk.log, Call("privateNegate", s.privateKey))
                     ELSE pk.log,
                     IF hasOddY(pk.val)
                     THEN B_privateNegate(s.backend, s.privateKey)
                     ELSE s.privateKey)
    IN  derived(getPublicKeyOf(s))

\* #tweakFromPublicKey(t)
tweakFromPublicKey(s, t) ==
    LET fail(xo, e, log) ==
            [ok |-> FALSE, err |-> e, made |-> NoSigner, signer |-> xo.signer, log |-> log]
        constructed(xo, log, made) ==
            [ok |-> made.ok, err |-> made.err, made |-> made.signer, signer |-> xo.signer,
             log |-> log \o made.log]
        joined(xo, log, fullKey) ==
            IF createPublicKey(fullKey) # "" THEN fail(xo, createPublicKey(fullKey), log)
            ELSE constructed(xo, log,
                     fromPublicKey(s.backend, fullKey,
                         [network |-> <<s.network>>, compressed |-> <<s.compressed>>]))
        added(xo, log, tweakedPublicKey) ==
            IF tweakedPublicKey.status = "throw" THEN fail(xo, tweakedPublicKey.err, log)
            ELSE IF tweakedPublicKey.status = "null"
            THEN fail(xo, "Cannot tweak public key!", log)
            ELSE joined(xo, log,
                     concatBytes(<<IF tweakedPublicKey.parity = 0 THEN 2 ELSE 3>>,
                                 tweakedPublicKey.xOnlyPubkey))
        derived(xo) ==
            IF ~xo.ok THEN fail(xo, xo.err, xo.log)
            ELSE added(xo, Append(xo.log, Call("xOnlyPointAddTweak", xo.val)),
                       B_xOnlyPointAddTweak(s.backend, xo.val, t))
    IN  derived(getXOnlyPublicKeyOf(s))

\* a faulty tweak: the signer itself takes the tweaked key
tweakInPlace(s, t) ==
    LET done(out) == IF out.ok THEN [out EXCEPT !.signer = out.made] ELSE out
    IN  done(IF s.privateKey # <<>> THEN tweakFromPrivateKey(s, t)
             ELSE tweakFromPublicKey(s, t))

\* tweak(t)
tweak(s, t) ==
    IF s.privateKey # <<>> THEN tweakFromPrivateKey(s, t) ELSE tweakFromPublicKey(s, t)

\* a faulty makeRandom: the first draw is taken, whatever isPrivate says
drawOnce(backend, draws, k) ==
    IF Len(draws[k]) # KeyLen
    THEN [ok |-> FALSE, err |-> "Expected 32 bytes from rng", bytes |-> <<>>,
          log |-> <<Call("rng", draws[k])>>]
    ELSE [ok |-> TRUE, err |-> "", bytes |-> draws[k],
          log |-> <<Call("rng", draws[k]), Call("isPrivate", draws[k])>>]

\* a faulty loop: isPrivate is asked about a draw before its length is checked
RECURSIVE drawLengthLate(_, _, _)
drawLengthLate(backend, draws, k) ==
    LET privateKeyBytes == draws[k]
        asked == <<Call("rng", privateKeyBytes), Call("isPrivate", privateKeyBytes)>>
    IN  IF Len(privateKeyBytes) = KeyLen /\ B_isPrivate(backend, privateKeyBytes)
        THEN [ok |-> TRUE, err |-> "", bytes |-> privateKeyBytes, log |-> asked]
        ELSE IF Len(privateKeyBytes) # KeyLen
        THEN [ok |-> FALSE, err |-> "Expected 32 bytes from rng", bytes |-> <<>>,
              log |-> asked]
        ELSE IF k < Len(draws)
        THEN LET rest == drawLengthLate(backend, draws, k + 1)
             IN  [rest EXCEPT !.log = asked \o @]
        ELSE [ok |-> FALSE, err |-> "the script of draws is exhausted", bytes |-> <<>>,
              log |-> asked]

\* the rng loop of makeRandom: draws[k] is what the k-th call of the random
\* source returns; the loop ends at the first draw of a wrong length (throw)
\* or the first draw that backend.isPrivate accepts
RECURSIVE drawLoop(_, _, _)
drawLoop(backend, draws, k) ==
    LET privateKeyBytes == draws[k]
    IN  IF Len(privateKeyBytes) # KeyLen
        THEN [ok |-> FALSE, err |-> "Expected 32 bytes from rng", bytes |-> <<>>,
              log |-> <<Call("rng", privateKeyBytes)>>]
        ELSE IF B_isPrivate(backend, privateKeyBytes)
        THEN [ok |-> TRUE, err |-> "", bytes |-> privateKeyBytes,
              log |-> <<Call("rng", privateKeyBytes), Call("isPrivate", privateKeyBytes)>>]
        ELSE IF k < Len(draws)
        THEN LET rest == drawLoop(backend, draws, k + 1)
             IN  [rest EXCEPT !.log = <<Call("rng", privateKeyBytes),
                                        Call("isPrivate", privateKeyBytes)>> \o @]
        ELSE [ok |-> FALSE, err |-> "the script of draws is exhausted", bytes |-> <<>>,
              log |-> <<Call("rng", privateKeyBytes), Call("isPrivate", privateKeyBytes)>>]

\* a script of draws on which the loop ends: every draw but the last is a
\* 32-byte value that isPrivate rejects, the last is accepted or of a wrong length
EndingScript(backend, draws) ==
    /\ Len(draws) >= 1
    /\ \A k \in 1..(Len(draws) - 1) :
          Len(draws[k]) = KeyLen /\ ~B_isPrivate(backend, draws[k])
    /\ (Len(draws[Len(draws)]) # KeyLen \/ B_isPrivate(backend, draws[Len(draws)]))

\* a faulty makeRandom: generatePrivateKey is used whenever the backend has
\* it, also when options.rng is given
makeRandomGenerateFirst(backend, options, hasRng, draws, generated) ==
    LET drawn == IF HasGeneratePrivateKey(backend)
                 THEN [ok |-> TRUE, err |-> "", bytes |-> generated,
                       log |-> <<Call("generatePrivateKey", <<>>)>>]
                 ELSE drawLoop(backend, draws, 1)
    IN  IF ~drawn.ok
        THEN [ok |-> FALSE, err |-> drawn.err, signer |-> NoSigner, log |-> drawn.log]
        ELSE IF createPrivateKey(drawn.bytes) # ""
        THEN [ok |-> FALSE, err |-> createPrivateKey(drawn.bytes), signer |-> NoSigner,
              log |-> drawn.log]
        ELSE LET made == fromPrivateKey(backend, drawn.bytes, options)
             IN  [made EXCEPT !.log = drawn.log \o @]

\* static makeRandom.  hasRng: options.rng is given; draws: what the random
\* source (options.rng or crypto.getRandomValues) returns, call by call;
\* generated: what backend.generatePrivateKey returns
makeRandom(backend, options, hasRng, draws, generated) ==
    LET drawn == IF HasGeneratePrivateKey(backend) /\ ~hasRng
                 THEN [ok |-> TRUE, err |-> "", bytes |-> generated,
                       log |-> <<Call("generatePrivateKey", <<>>)>>]
                 ELSE drawLoop(backend, draws, 1)
    IN  IF ~drawn.ok
        THEN [ok |-> FALSE, err |-> drawn.err, signer |-> NoSigner, log |-> drawn.log]
        ELSE IF createPrivateKey(drawn.bytes) # ""
        THEN [ok |-> FALSE, err |-> createPrivateKey(drawn.bytes), signer |-> NoSigner,
              log |-> drawn.log]
        ELSE LET made == fromPrivateKey(backend, drawn.bytes, options)
             IN  [made EXCEPT !.log = drawn.log \o @]

\* a faulty write of the counter: big-endian
setUint32BE(buffer, counter) ==
    [i \in 1..Len(buffer) |->
        IF i <= CounterLen
        THEN (counter \div (ByteBase ^ (CounterLen - i))) % ByteBase
        ELSE buffer[i]]

\* DataView.setUint32(0, counter, true): the counter modulo 2^32, little-endian,
\* in the first bytes of the buffer
setUint32LE(buffer, counter) ==
    [i \in 1..Len(buffer) |->
        IF i <= CounterLen
        THEN (counter \div (ByteBase ^ (i - 1))) % ByteBase
        ELSE buffer[i]]

\* a faulty loop condition: the first signature is never ground
neverGrind(sig) == FALSE

\* the loop condition of the low-R grinding: sig[0] !== undefined && sig[0] > 0x7f
mustGrind(sig) == Len(sig) >= 1 /\ sig[1] > LowRMax

\* a faulty early return: only an explicit false skips the grinding
onlyFalseIsPlain(lowR) == lowR = "false"

\* the early return of sign: lowR === false || lowR === undefined
isPlain(lowR) == lowR = "false" \/ lowR = "absent"

\* ------------------------------------------------------------------------
\* The state machine: a caller's sequence of calls into the library
\* ------------------------------------------------------------------------

VARIABLES
    signers,    \* the signers made so far, in the order they were made
    call,       \* the call in progress, or the last call and its outcome
    pc,         \* "idle", or "grind" inside the low-R loop of sign
    local,      \* the local variables of sign: sig, counter, extraData
    verified,   \* the backends on which verifyCryptoBackend has run and passed
    heap        \* the Uint8Arrays of the caller and of the signers, by reference

vars == <<signers, call, pc, local, verified, heap>>

\* the most signers a run makes
MaxSigners == 2

\* the most signers a run makes from keys of its own; the others are made
\* by tweak, or by fromPublicKey from the public key of a signer
MaxRoots == 1

\* the most draws of the random source that makeRandom rejects in a run
MaxRejects == 2

\* the most buffers a run allocates, and the most bytes a caller overwrites
MaxBuffers == 3
MaxWrites == 1

\* the most turns of the low-R loop that a run follows
MaxGrinds == 18

\* what a factory was given besides args: the backend, the options, the
\* network argument of fromWIF, and whether options.rng was given
NoInput == [backend |-> CustomBackend, options |-> NoOptions, network |-> <<>>,
            hasRng |-> FALSE]

NoCall == [op |-> "none", self |-> 0, args |-> <<>>, input |-> NoInput, ok |-> TRUE,
           err |-> "", val |-> <<>>, made |-> 0, log |-> <<>>]

NoLocal == [sig |-> <<>>, counter |-> 0, extraData |-> <<>>]

\* A reference to bytes: the Uint8Array over len bytes of buffer number
\* buffer, from byte from on (a subarray shares the buffer of its array);
\* buffer 0 is undefined
NoRef == [buffer |-> 0, from |-> 0, len |-> 0]

\* buffers: the contents of the buffers allocated; fields: the private
\* fields #privateKey, #publicKey, #xOnlyPublicKey and #compressed of every
\* signer made, as references; held: the references the caller holds;
\* writes: the bytes the caller has overwritten
NoHeap == [buffers |-> <<>>, fields |-> <<>>, held |-> {}, writes |-> 0]

Init ==
    /\ signers = <<>>
    /\ call = NoCall
    /\ pc = "idle"
    /\ local = NoLocal
    /\ verified = {}
    /\ heap = NoHeap

\* a factory call ends: the signer made, if any, joins signers
Made(op, args, input, out) ==
    /\ signers' = IF out.ok
                  THEN Append(signers, [out.signer EXCEPT !.origin = [op |-> op, args |-> args]])
                  ELSE signers
    /\ call' = [op |-> op, self |-> 0, args |-> args, input |-> input,
                ok |-> out.ok, err |-> out.err,
                val |-> <<>>, made |-> IF out.ok THEN Len(signers) + 1 ELSE 0,
                log |-> out.log]
    /\ UNCHANGED <<pc, local, verified, heap>>

\* a method call on signers[i] ends: its caches may have been filled
Returned(op, i, args, out) ==
    /\ signers' = [signers EXCEPT ![i] = out.signer]
    /\ call' = [op |-> op, self |-> i, args |-> args, input |-> NoInput,
                ok |-> out.ok, err |-> out.err,
                val |-> out.val, made |-> 0, log |-> out.log]
    /\ UNCHANGED <<pc, local, verified, heap>>

FromPrivateKey(backend, privateKey, options) ==
    /\ pc = "idle"
    /\ Len(signers) < MaxRoots
    /\ Made("fromPrivateKey", <<privateKey>>,
            [NoInput EXCEPT !.backend = backend, !.options = options],
            fromPrivateKey(backend, privateKey, options))

FromPublicKey(backend, publicKey, options) ==
    /\ pc = "idle"
    /\ Len(signers) < (IF \E i \in 1..Len(signers) : publicKey = signers[i].publicKey
                       THEN MaxSigners ELSE MaxRoots)
    /\ Made("fromPublicKey", <<publicKey>>,
            [NoInput EXCEPT !.backend = backend, !.options = options],
            fromPublicKey(backend, publicKey, options))

FromWIF(backend, wifString, network) ==
    /\ pc = "idle"
    /\ Len(signers) < MaxRoots
    /\ Made("fromWIF", <<wifString>>,
            [NoInput EXCEPT !.backend = backend, !.network = network],
            fromWIF(backend, wifString, network))

MakeRandom(backend, options, hasRng, draws, generated) ==
    /\ pc = "idle"
    /\ Len(signers) < MaxRoots
    /\ IF HasGeneratePrivateKey(backend) /\ ~hasRng THEN draws = <<>>
       ELSE EndingScript(backend, draws)
    /\ Made("makeRandom", draws,
            [NoInput EXCEPT !.backend = backend, !.options = options, !.hasRng = hasRng],
            makeRandom(backend, options, hasRng, draws, generated))

GetPublicKey(i) ==
    /\ pc = "idle"
    /\ Returned("publicKey", i, <<>>, getPublicKeyOf(signers[i]))

GetXOnlyPublicKey(i) ==
    /\ pc = "idle"
    /\ Returned("xOnlyPublicKey", i, <<>>, getXOnlyPublicKeyOf(signers[i]))

GetCapabilities(i) ==
    /\ pc = "idle"
    /\ Returned("capabilities", i, <<>>, getCapabilitiesOf(signers[i]))

SignSchnorr(i, hash, aux) ==
    /\ pc = "idle"
    /\ Returned("signSchnorr", i, <<hash>>, signSchnorr(signers[i], hash, aux))

Verify(i, hash, signature) ==
    /\ pc = "idle"
    /\ Returned("verify", i, <<hash, signature>>, verify(signers[i], hash, signature))

VerifySchnorr(i, hash, signature) ==
    /\ pc = "idle"
    /\ Returned("verifySchnorr", i, <<hash, signature>>,
                verifySchnorr(signers[i], hash, signature))

ToWIF(i) ==
    /\ pc = "idle"
    /\ Returned("toWIF", i, <<>>, toWIF(signers[i]))

\* a tweak(t) call on signers[i] ends: the caches of signers[i] may have been
\* filled, and the signer made, if any, joins signers with signers[i] as its parent
Tweaked(i, t, out) ==
    /\ signers' = IF out.ok
                  THEN Append([signers EXCEPT ![i] = out.signer],
                              [out.made EXCEPT !.parent = i,
                                               !.origin = [op |-> "tweak", args |-> <<t>>]])
                  ELSE [signers EXCEPT ![i] = out.signer]
    /\ call' = [op |-> "tweak", self |-> i, args |-> <<t>>, input |-> NoInput,
                ok |-> out.ok, err |-> out.err, val |-> <<>>,
                made |-> IF out.ok THEN Len(signers) + 1 ELSE 0, log |-> out.log]
    /\ UNCHANGED <<pc, local, verified, heap>>

Tweak(i, t) ==
    /\ pc = "idle"
    /\ Len(signers) < MaxSigners
    /\ Tweaked(i, t, tweak(signers[i], t))

\* sign(hash, lowR), up to the loop: lowR is "absent", "false" or "true"
Sign(i, hash, lowR) ==
    /\ pc = "idle"
    /\ LET s == signers[i]
           first == B_sign(s.backend, hash, s.privateKey, <<>>)
           begun == [op |-> "sign", self |-> i, args |-> <<hash, lowR>>,
                     input |-> NoInput, ok |-> TRUE,
                     err |-> "", val |-> <<>>, made |-> 0,
                     log |-> <<Call("sign", <<>>)>>]
       IN  IF s.privateKey = <<>>
           THEN /\ call' = [begun EXCEPT !.ok = FALSE, !.err = "Missing private key",
                                         !.log = <<>>]
                /\ UNCHANGED <<pc, local>>
           ELSE IF isPlain(lowR)
           THEN /\ call' = [begun EXCEPT !.val = first]
                /\ UNCHANGED <<pc, local>>
           ELSE /\ call' = begun
                /\ pc' = "grind"
                /\ local' = [sig |-> first, counter |-> 0,
                             extraData |-> [k \in 1..EntropyLen |-> 0]]
    /\ UNCHANGED <<signers, verified, heap>>

\* a faulty loop: after three turns sign gives up and throws
GrindCapped ==
    /\ pc = "grind"
    /\ mustGrind(local.sig)
    /\ local.counter < MaxGrinds
    /\ LET s == signers[call.self]
           counter == local.counter + 1
           extraData == setUint32LE(local.extraData, counter)
       IN  IF counter <= 3
           THEN /\ local' = [sig |-> B_sign(s.backend, call.args[1], s.privateKey, extraData),
                             counter |-> counter, extraData |-> extraData]
                /\ call' = [call EXCEPT !.log = Append(@, Call("sign", extraData))]
                /\ pc' = pc
           ELSE /\ local' = NoLocal
                /\ call' = [call EXCEPT !.ok = FALSE, !.err = "no low-R signature found"]
                /\ pc' = "idle"
    /\ UNCHANGED <<signers, verified, heap>>

\* one turn of the while loop of sign
Grind ==
    /\ pc = "grind"
    /\ mustGrind(local.sig)
    /\ local.counter < MaxGrinds
    /\ LET s == signers[call.self]
           counter == local.counter + 1
           extraData == setUint32LE(local.extraData, counter)
       IN  /\ local' = [sig |-> B_sign(s.backend, call.args[1], s.privateKey, extraData),
                        counter |-> counter, extraData |-> extraData]
           /\ call' = [call EXCEPT !.log = Append(@, Call("sign", extraData))]
    /\ UNCHANGED <<signers, pc, verified, heap>>

\* the loop of sign ends and sign returns sig
SignReturn ==
    /\ pc = "grind"
    /\ ~mustGrind(local.sig)
    /\ call' = [call EXCEPT !.val = local.sig]
    /\ pc' = "idle"
    /\ local' = NoLocal
    /\ UNCHANGED <<signers, verified, heap>>

\* testecc.ts verifyCryptoBackend: the message of the first assertion that
\* fails or of the error a backend call throws, "" when the battery passes.
\* The vectors are those of the source, on this curve.
verifyCryptoBackend(backend) ==
    LET G == PointToBytes(GTable[1], TRUE)
        GUncompressed == PointToBytes(GTable[1], FALSE)
        one == bigintToBytes32(1)
        zero == bigintToBytes32(0)
        three == bigintToBytes32(3)
        hash == bigintToBytes32(5)
        signResult == B_sign(backend, hash, one, <<>>)
    IN  IF ~B_isPoint(backend, G) THEN "verifyCryptoBackend: isPoint should accept generator point"
        ELSE IF B_isPoint(backend, <<3, 0, 0>>)
        THEN "verifyCryptoBackend: isPoint should reject invalid point"
        ELSE IF ~B_isPrivate(backend, bigintToBytes32(Gx))
        THEN "verifyCryptoBackend: isPrivate should accept valid scalar"
        ELSE IF ~B_isPrivate(backend, bigintToBytes32(EC_N - 1))
        THEN "verifyCryptoBackend: isPrivate should accept n-1"
        ELSE IF B_isPrivate(backend, zero)
        THEN "verifyCryptoBackend: isPrivate should reject zero"
        ELSE IF B_isPrivate(backend, bigintToBytes32(EC_N))
        THEN "verifyCryptoBackend: isPrivate should reject n"
        ELSE IF B_isPrivate(backend, bigintToBytes32(EC_N + 1))
        THEN "verifyCryptoBackend: isPrivate should reject n+1"
        ELSE IF B_privateAdd(backend, one, zero).status = "throw"
        THEN B_privateAdd(backend, one, zero).err
        ELSE IF B_privateAdd(backend, one, zero).bytes # one
        THEN "verifyCryptoBackend: privateAdd: 1 + 0 should equal 1"
        ELSE IF B_privateAdd(backend, bigintToBytes32(EC_N - 3), three).status # "null"
        THEN "verifyCryptoBackend: privateAdd: (n-3) + 3 should return null (result is zero mod n)"
        ELSE IF B_privateNegate(backend, one) # bigintToBytes32(EC_N - 1)
        THEN "verifyCryptoBackend: privateNegate(1) should equal n-1"
        ELSE IF B_privateNegate(backend, bigintToBytes32(EC_N - 3)) # three
        THEN "verifyCryptoBackend: privateNegate(n-3) should equal 3"
        ELSE IF B_pointCompress(backend, GUncompressed, TRUE) # G
        THEN "verifyCryptoBackend: pointCompress uncompressed->compressed failed"
        ELSE IF B_pointCompress(backend, G, FALSE) # GUncompressed
        THEN "verifyCryptoBackend: pointCompress compressed->uncompressed failed"
        ELSE IF B_pointFromScalar(backend, three, TRUE) # PointToBytes(GTable[3], TRUE)
        THEN "verifyCryptoBackend: pointFromScalar known vector failed"
        ELSE IF B_xOnlyPointAddTweak(backend, bigintToBytes32(Gx),
                                     bigintToBytes32(EC_N - 1)).status # "null"
        THEN "verifyCryptoBackend: xOnlyPointAddTweak should return null for infinity result"
        ELSE IF signResult # EcdsaSign(hash, one, <<>>)
        THEN "verifyCryptoBackend: sign known vector failed"
        ELSE IF ~B_verify(backend, hash, G, signResult)
        THEN "verifyCryptoBackend: verify known vector failed"
        ELSE IF HasSignSchnorr(backend)
                /\ B_signSchnorr(backend, hash, three, zero).status = "throw"
        THEN B_signSchnorr(backend, hash, three, zero).err
        ELSE IF HasSignSchnorr(backend)
                /\ B_signSchnorr(backend, hash, three, zero).bytes # SchnorrSign(hash, three, zero)
        THEN "verifyCryptoBackend: signSchnorr known vector failed"
        ELSE IF HasVerifySchnorr(backend)
                /\ B_verifySchnorr(backend, hash, toXOnly(PointToBytes(GTable[3], TRUE)),
                                   SchnorrSign(hash, three, zero)).status = "throw"
        THEN B_verifySchnorr(backend, hash, toXOnly(PointToBytes(GTable[3], TRUE)),
                             SchnorrSign(hash, three, zero)).err
        ELSE IF HasVerifySchnorr(backend)
                /\ ~B_verifySchnorr(backend, hash, toXOnly(PointToBytes(GTable[3], TRUE)),
                                    SchnorrSign(hash, three, zero)).val
        THEN "verifyCryptoBackend: verifySchnorr known vector failed"
        ELSE ""

\* NobleBackend, LegacyBackend over a library with and without the Schnorr
\* functions, and a backend with the mandatory operations only
Backends == {NobleBackend, LegacyBackend(TRUE, TRUE), LegacyBackend(FALSE, FALSE),
             CustomBackend}

\* what verifyCryptoBackend throws on each backend, computed once
Battery == [backend \in Backends |-> verifyCryptoBackend(backend)]

\* the caller runs verifyCryptoBackend(backend)
VerifyCryptoBackend(backend) ==
    /\ pc = "idle"
    /\ verified' = IF Battery[backend] = "" THEN verified \cup {backend} ELSE verified
    /\ call' = [NoCall EXCEPT !.op = "verifyCryptoBackend",
                              !.input = [NoInput EXCEPT !.backend = backend],
                              !.ok = (Battery[backend] = ""),
                              !.err = Battery[backend]]
    /\ UNCHANGED <<signers, pc, local, heap>>

\* ------------------------------------------------------------------------
\* The same calls by reference: which Uint8Array a signer keeps and returns
\* ------------------------------------------------------------------------

\* the bytes a reference stands for
Deref(h, ref) ==
    IF ref = NoRef THEN <<>>
    ELSE SubSeq(h.buffers[ref.buffer], ref.from, ref.from + ref.len - 1)

\* the Uint8Array over the whole of a new buffer
Fresh(h, bytes) == [buffer |-> Len(h.buffers) + 1, from |-> 1, len |-> Len(bytes)]

\* the caller makes a Uint8Array
NewBuffer(bytes) ==
    /\ pc = "idle"
    /\ Len(heap.buffers) < MaxBuffers
    /\ heap' = [heap EXCEPT !.buffers = Append(@, bytes),
                            !.held = @ \cup {Fresh(heap, bytes)}]
    /\ UNCHANGED <<signers, call, pc, local, verified>>

\* fromPrivateKey(NobleBackend, ref, {compressed}): the constructor keeps the
\* Uint8Array it is given
PrivateKeyByRef(ref, compressed) ==
    /\ pc = "idle"
    /\ ref \in heap.held
    /\ Len(heap.fields) < MaxSigners
    /\ B_isPrivate(NobleBackend, Deref(heap, ref))
    /\ heap' = [heap EXCEPT !.fields = Append(@, [privateKey |-> ref, publicKey |-> NoRef,
                                                   xOnlyPublicKey |-> NoRef,
                                                   compressed |-> compressed])]
    /\ UNCHANGED <<signers, call, pc, local, verified>>

\* fromPublicKey(NobleBackend, ref, {compressed}): the constructor keeps what
\* backend.pointCompress returns, a new Uint8Array
PublicKeyByRef(ref, compressed) ==
    /\ pc = "idle"
    /\ ref \in heap.held
    /\ Len(heap.fields) < MaxSigners
    /\ Len(heap.buffers) < MaxBuffers
    /\ B_isPoint(NobleBackend, Deref(heap, ref))
    /\ LET p == B_pointCompress(NobleBackend, Deref(heap, ref), compressed)
       IN  heap' = [heap EXCEPT !.buffers = Append(@, p),
                                !.fields = Append(@, [privateKey |-> NoRef,
                                                      publicKey |-> Fresh(heap, p),
                                                      xOnlyPublicKey |-> NoRef,
                                                      compressed |-> compressed])]
    /\ UNCHANGED <<signers, call, pc, local, verified>>

\* get privateKey: the Uint8Array the signer keeps is returned; it is the
\* one the caller passed to fromPrivateKey
GetPrivateKeyRef(i) ==
    /\ pc = "idle"
    /\ heap.fields[i].privateKey # NoRef
    /\ heap' = [heap EXCEPT !.held = @ \cup {heap.fields[i].privateKey}]
    /\ UNCHANGED <<signers, call, pc, local, verified>>

\* the heap after the publicKey getter has run on signer i: #publicKey is
\* set, on the first read, to the new Uint8Array of backend.pointFromScalar;
\* the heap is left as it is when the getter throws
WithPublicKey(h, i) ==
    LET f == h.fields[i]
        p == B_pointFromScalar(NobleBackend, Deref(h, f.privateKey), f.compressed)
    IN  IF f.publicKey # NoRef \/ f.privateKey = NoRef \/ p = <<>> THEN h
        ELSE [h EXCEPT !.buffers = Append(@, p), !.fields[i].publicKey = Fresh(h, p)]

\* get publicKey: the Uint8Array the signer keeps is returned
GetPublicKeyRef(i) ==
    /\ pc = "idle"
    /\ heap.fields[i].publicKey # NoRef \/ Len(heap.buffers) < MaxBuffers
    /\ LET h == WithPublicKey(heap, i)
       IN  /\ h.fields[i].publicKey # NoRef
           /\ h.fields[i].publicKey \notin heap.held
           /\ heap' = [h EXCEPT !.held = @ \cup {h.fields[i].publicKey}]
    /\ UNCHANGED <<signers, call, pc, local, verified>>

\* get xOnlyPublicKey: toXOnly(this.publicKey), the subarray(1, 33) of the
\* Uint8Array of the public key, is kept and returned
GetXOnlyPublicKeyRef(i) ==
    /\ pc = "idle"
    /\ heap.fields[i].publicKey # NoRef \/ Len(heap.buffers) < MaxBuffers
    /\ LET h == WithPublicKey(heap, i)
           pub == h.fields[i].publicKey
           view == IF h.fields[i].xOnlyPublicKey # NoRef THEN h.fields[i].xOnlyPublicKey
                   ELSE [buffer |-> pub.buffer, from |-> pub.from + 1, len |-> KeyLen]
       IN  /\ pub # NoRef
           /\ view \notin heap.held
           /\ heap' = [h EXCEPT !.fields[i].xOnlyPublicKey = view,
                                !.held = @ \cup {view}]
    /\ UNCHANGED <<signers, call, pc, local, verified>>

\* the caller overwrites byte k of a Uint8Array it holds
WriteByte(ref, k, byte) ==
    /\ pc = "idle"
    /\ ref \in heap.held
    /\ k \in 1..ref.len
    /\ heap.writes < MaxWrites
    /\ heap.buffers[ref.buffer][ref.from + k - 1] # byte
    /\ heap' = [heap EXCEPT !.buffers[ref.buffer][ref.from + k - 1] = byte,
                            !.writes = @ + 1]
    /\ UNCHANGED <<signers, call, pc, local, verified>>

\* ------------------------------------------------------------------------
\* Calls of the operations of a backend
\* ------------------------------------------------------------------------

\* backend.xOnlyPointAddTweak(p, t): val is the parity, then the x-only
\* key; a null result is a call that is not ok and has no error
XOnlyPointAddTweak(backend, p, t) ==
    /\ pc = "idle"
    /\ LET r == B_xOnlyPointAddTweak(backend, p, t)
       IN  call' = [NoCall EXCEPT !.op = "xOnlyPointAddTweak",
                                  !.args = <<p, t>>,
                                  !.input = [NoInput EXCEPT !.backend = backend],
                                  !.ok = (r.status = "ok"),
                                  !.err = r.err,
                                  !.val = IF r.status = "ok"
                                          THEN <<r.parity>> \o r.xOnlyPubkey ELSE <<>>]
    /\ UNCHANGED <<signers, pc, local, verified, heap>>

\* backend.privateAdd(d, t)
PrivateAdd(backend, d, t) ==
    /\ pc = "idle"
    /\ LET r == B_privateAdd(backend, d, t)
       IN  call' = [NoCall EXCEPT !.op = "privateAdd",
                                  !.args = <<d, t>>,
                                  !.input = [NoInput EXCEPT !.backend = backend],
                                  !.ok = (r.status = "ok"),
                                  !.err = r.err,
                                  !.val = r.bytes]
    /\ UNCHANGED <<signers, pc, local, verified, heap>>

\* backend.privateNegate(d)
PrivateNegate(backend, d) ==
    /\ pc = "idle"
    /\ call' = [NoCall EXCEPT !.op = "privateNegate",
                              !.args = <<d>>,
                              !.input = [NoInput EXCEPT !.backend = backend],
                              !.val = B_privateNegate(backend, d)]
    /\ UNCHANGED <<signers, pc, local, verified, heap>>

\* the caller runs createX(v): v itself is returned, or an error is thrown
Create(X, v) ==
    /\ pc = "idle"
    /\ call' = [NoCall EXCEPT !.op = "create",
                              !.args = <<X, v>>,
                              !.ok = (createType(X, v) = ""),
                              !.err = createType(X, v),
                              !.val = IF createType(X, v) = "" THEN <<v>> ELSE <<>>]
    /\ UNCHANGED <<signers, pc, local, verified, heap>>

\* ------------------------------------------------------------------------
\* What the caller passes in
\* ------------------------------------------------------------------------

\* buffers of every length up to one more than the longest signature: every
\* buffer of at most 32 bytes, and longer ones with every first byte up to
\* one more than the greatest SEC1 prefix
ByteInputs ==
    UNION {BytesOfLen(len) : len \in 0..KeyLen}
    \cup {<<prefix>> \o [i \in 1..len |-> fill] :
             prefix \in 0..8, len \in 0..SignatureMaxLen, fill \in {0, 1}}

\* Uint8Arrays and plain arrays of those bytes, bigints and numbers around
\* the range of a Satoshi
ValueInputs ==
    {[kind |-> k, bytes |-> b, n |-> 0] : k \in {"Uint8Array", "Array"}, b \in ByteInputs}
    \cup {[kind |-> k, bytes |-> <<>>, n |-> n] :
             k \in {"bigint", "number"}, n \in (0 - 1)..(SATOSHI_MAX + 1)}

\* every 32-byte value
Scalars == Bytes32

\* the valid private keys
PrivateKeys == {d \in Scalars : isPrivateKey(d)}

\* a value of a wrong length
ShortBytes == <<1>>

\* a single network, or a list of candidates; testnet and regtest share
\* their version byte
NetworkInputs ==
    {<<>>}
    \cup {<<[isList |-> FALSE, nets |-> <<n>>]>> : n \in NetworkNames}
    \cup {<<[isList |-> TRUE, nets |-> l]>> :
             l \in {<<"bitcoin", "testnet">>, <<"testnet", "regtest">>,
                    <<"regtest", "testnet">>, <<"regtest", "bitcoin">>,
                    <<"bitcoin", "testnet", "regtest">>, <<"bitcoin">>, <<>>}}

\* a version byte that no network has
OtherVersion == WifVersion("bitcoin") + 1

\* the WIF strings: every encoding of every 32-byte value under the version
\* bytes of the networks and one other, and the same with a damaged
\* checksum, a damaged compression flag or a missing byte
WifInputs ==
    LET good == {wif_encode(v, d, c) :
                    v \in {WifVersion("bitcoin"), WifVersion("testnet"), OtherVersion},
                    d \in Scalars, c \in BOOLEAN}
        one == bigintToBytes32(1)
        version == WifVersion("bitcoin")
        flagged == <<version>> \o one \o <<0>>
        long == <<version>> \o one \o <<1, 1>>
    IN  good \cup {<<version>> \o one \o <<(Checksum(<<version>> \o one) + 1) % ByteBase>>,
                   Append(flagged, Checksum(flagged)),
                   Append(long, Checksum(long)),
                   <<>>}

\* the scripts of a random source: rejected draws, then an accepted one or
\* one of a wrong length
RECURSIVE RejectedOfLen(_, _)
RejectedOfLen(backend, len) ==
    IF len = 0 THEN {<<>>}
    ELSE {Append(script, d) : script \in RejectedOfLen(backend, len - 1),
                              d \in {r \in Scalars : ~B_isPrivate(backend, r)}}

Scripts(backend) ==
    {Append(script, d) :
        script \in UNION {RejectedOfLen(backend, len) : len \in 0..MaxRejects},
        d \in {a \in Scalars \cup {ShortBytes} : Len(a) # KeyLen \/ B_isPrivate(backend, a)}}

\* a signature that no signer made here
Tampered == [i \in 1..SigLen |-> 1]

Signers == 1..Len(signers)

LowRInputs == {"absent", "false", "true"}

\* zero, a key with even y, a key with odd y, n - 1, n
SomeScalars == {bigintToBytes32(k) : k \in {0, 1, 3, EC_N - 1, EC_N}}

SomePublicKeys ==
    {PointToBytes(GTable[1], TRUE), PointToBytes(GTable[3], FALSE), <<3, 0, 0>>}

SomeWifs ==
    {wif_encode(WifVersion("bitcoin"), bigintToBytes32(1), TRUE),
     wif_encode(WifVersion("testnet"), bigintToBytes32(3), FALSE),
     wif_encode(WifVersion("testnet"), bigintToBytes32(0), TRUE)}

\* an accepted first draw; the script of the test "loops until d is within
\* interval [1, n)": 0, then n, then n - 1; a draw of a wrong length
SomeScripts ==
    {<<bigintToBytes32(3)>>,
     <<bigintToBytes32(0), bigintToBytes32(EC_N), bigintToBytes32(EC_N - 1)>>,
     <<ShortBytes>>}

OneHash == bigintToBytes32(6)

\* hashes below, at and above the group order
SomeHashes ==
    {bigintToBytes32(k) : k \in {0, 1, 2, 5, 6, EC_N - 1, EC_N, ByteBase ^ KeyLen - 1}}

CompressedInputs == {[compressed |-> <<c>>, network |-> <<>>] : c \in BOOLEAN}

\* options omitted, and options with one field or both given
OptionInputs ==
    {NoOptions,
     [compressed |-> <<FALSE>>, network |-> <<>>],
     [compressed |-> <<>>, network |-> <<"testnet">>],
     [compressed |-> <<TRUE>>, network |-> <<"regtest">>]}

\* a 33-byte buffer with prefix 0x02 whose coordinate is on no point
OffCurve == <<2>> \o bigintToBytes32(0)

\* public keys, compressed and not, and buffers that are no point
PublicKeyInputs == SomePublicKeys \cup {OffCurve, ShortBytes}

\* the options with which a signer was made
SameOptions(s) == [compressed |-> <<s.compressed>>, network |-> <<s.network>>]

\* the signers that hold a private key
Private == {i \in Signers : signers[i].privateKey # <<>>}

\* what a caller verifies: the signature the last call returned, under its
\* hash, and a signature that no signer made
VerifyInputs ==
    IF pc = "idle" /\ call.op \in {"sign", "signSchnorr"} /\ call.ok
    THEN {<<call.args[1], call.val>>, <<call.args[1], Tampered>>}
    ELSE {<<OneHash, Tampered>>}

\* ------------------------------------------------------------------------
\* Spec: the operations on a signer made from a key
\* ------------------------------------------------------------------------

Next ==
    \/ \E b \in {NobleBackend, LegacyBackend(FALSE, FALSE)}, d \in SomeScalars,
          o \in CompressedInputs :
          FromPrivateKey(b, d, o)
    \/ \E b \in {NobleBackend, LegacyBackend(FALSE, FALSE)}, p \in SomePublicKeys,
          o \in CompressedInputs :
          FromPublicKey(b, p, o)
    \/ \E i \in Signers : GetPublicKey(i)
    \/ \E i \in Signers : GetXOnlyPublicKey(i)
    \/ \E i \in Signers, lowR \in LowRInputs : Sign(i, OneHash, lowR)
    \/ Grind
    \/ SignReturn
    \/ \E i \in Signers : SignSchnorr(i, OneHash, OneHash)
    \/ \E i \in Signers, v \in VerifyInputs : Verify(i, v[1], v[2])
    \/ \E i \in Signers, v \in VerifyInputs : VerifySchnorr(i, v[1], v[2])
    \/ \E i \in Signers, t \in {bigintToBytes32(1), bigintToBytes32(EC_N - 3)} : Tweak(i, t)
    \/ \E i \in Signers : ToWIF(i)

Spec == Init /\ [][Next]_vars

\* ------------------------------------------------------------------------
\* SpecCaps: the capabilities of a signer and what its operations do, on
\* every backend
\* ------------------------------------------------------------------------

NextCaps ==
    \/ \E b \in Backends, d \in SomeScalars, o \in CompressedInputs : FromPrivateKey(b, d, o)
    \/ \E b \in Backends, p \in SomePublicKeys, o \in CompressedInputs :
          FromPublicKey(b, p, o)
    \/ \E i \in Signers : GetCapabilities(i)
    \/ \E i \in Signers, lowR \in LowRInputs : Sign(i, OneHash, lowR)
    \/ Grind
    \/ SignReturn
    \/ \E i \in Signers : SignSchnorr(i, OneHash, OneHash)
    \/ \E i \in Signers, v \in VerifyInputs : VerifySchnorr(i, v[1], v[2])
    \/ \E i \in Signers : ToWIF(i)

SpecCaps == Init /\ [][NextCaps]_vars

\* ------------------------------------------------------------------------
\* SpecTweak: the private keys of signers, however made, and their tweaks
\* ------------------------------------------------------------------------

NextTweak ==
    \/ \E b \in Backends, d \in Scalars \cup {ShortBytes}, o \in CompressedInputs :
          FromPrivateKey(b, d, o)
    \/ \E w \in WifInputs,
          n \in {<<>>, <<[isList |-> TRUE, nets |-> <<"regtest", "testnet">>]>>} :
          FromWIF(NobleBackend, w, n)
    \/ \E b \in {NobleBackend, CustomBackend}, draws \in SomeScripts :
          MakeRandom(b, NoOptions, TRUE, draws, <<>>)
    \/ \E generated \in PrivateKeys : MakeRandom(NobleBackend, NoOptions, FALSE, <<>>, generated)
    \/ \E b \in Backends, p \in SomePublicKeys, o \in CompressedInputs :
          FromPublicKey(b, p, o)
    \/ \E i \in Signers : GetPublicKey(i)
    \/ \E i \in Signers, t \in Scalars : Tweak(i, t)

SpecTweak == Init /\ [][NextTweak]_vars

\* ------------------------------------------------------------------------
\* SpecSign: sign, with and without low-R grinding, every hash and every key
\* ------------------------------------------------------------------------

NextSign ==
    \/ \E b \in Backends, d \in Scalars : FromPrivateKey(b, d, NoOptions)
    \/ \E p \in SomePublicKeys : FromPublicKey(NobleBackend, p, NoOptions)
    \/ \E i \in Signers, h \in Scalars, lowR \in LowRInputs : Sign(i, h, lowR)
    \/ Grind
    \/ SignReturn

SpecSign == Init /\ [][NextSign]_vars

\* ------------------------------------------------------------------------
\* SpecRoundTrip: a signature verified by its signer and by the signer made
\* from its public key
\* ------------------------------------------------------------------------

NextRoundTrip ==
    \/ \E d \in Scalars, o \in CompressedInputs : FromPrivateKey(NobleBackend, d, o)
    \/ \E i \in Signers :
          FromPublicKey(signers[i].backend, signers[i].publicKey, SameOptions(signers[i]))
    \/ \E i \in Signers : GetPublicKey(i)
    \/ \E i \in Private, h \in SomeHashes, lowR \in LowRInputs : Sign(i, h, lowR)
    \/ Grind
    \/ SignReturn
    \/ \E i \in Private, h \in SomeHashes, aux \in {OneHash, bigintToBytes32(0)} :
          SignSchnorr(i, h, aux)
    \/ \E i \in Signers, v \in VerifyInputs : Verify(i, v[1], v[2])
    \/ \E i \in Signers, v \in VerifyInputs : VerifySchnorr(i, v[1], v[2])

SpecRoundTrip == Init /\ [][NextRoundTrip]_vars

\* ------------------------------------------------------------------------
\* SpecWIF: fromWIF on every string and network argument, then toWIF
\* ------------------------------------------------------------------------

NextWIF ==
    \/ \E b \in {NobleBackend, CustomBackend}, w \in WifInputs, n \in NetworkInputs :
          FromWIF(b, w, n)
    \/ \E i \in Signers : ToWIF(i)

SpecWIF == Init /\ [][NextWIF]_vars

\* ------------------------------------------------------------------------
\* SpecRandom: makeRandom on every script of the random source
\* ------------------------------------------------------------------------

NextRandom ==
    \/ \E b \in Backends : \E o \in CompressedInputs, draws \in Scripts(b) :
          MakeRandom(b, o, TRUE, draws, <<>>)
    \/ \E b \in Backends \ {NobleBackend} : \E draws \in Scripts(b) :
          MakeRandom(b, NoOptions, FALSE, draws, <<>>)
    \/ \E generated \in PrivateKeys, o \in {NoOptions} \cup CompressedInputs :
          MakeRandom(NobleBackend, o, FALSE, <<>>, generated)
    \/ \E i \in Signers : ToWIF(i)

SpecRandom == Init /\ [][NextRandom]_vars

\* ------------------------------------------------------------------------
\* SpecConformance: verifyCryptoBackend and the four factories
\* ------------------------------------------------------------------------

NextConformance ==
    \/ \E b \in Backends : VerifyCryptoBackend(b)
    \/ \E b \in Backends, d \in SomeScalars : FromPrivateKey(b, d, NoOptions)
    \/ \E b \in Backends, p \in SomePublicKeys : FromPublicKey(b, p, NoOptions)
    \/ \E b \in Backends, w \in SomeWifs : FromWIF(b, w, <<>>)
    \/ \E b \in Backends, hasRng \in BOOLEAN :
          MakeRandom(b, NoOptions, hasRng,
                     IF HasGeneratePrivateKey(b) /\ ~hasRng THEN <<>>
                     ELSE <<bigintToBytes32(0), bigintToBytes32(3)>>,
                     bigintToBytes32(1))

SpecConformance == Init /\ [][NextConformance]_vars

\* ------------------------------------------------------------------------
\* SpecTypes: createX on every value, for every validated type
\* ------------------------------------------------------------------------

NextTypes == \E X \in TypeNames, v \in ValueInputs : Create(X, v)

SpecTypes == Init /\ [][NextTypes]_vars

\* ------------------------------------------------------------------------
\* SpecOwnership: the buffers passed to the factories and returned by the
\* getters, and the caller's writes to them
\* ------------------------------------------------------------------------

NextOwnership ==
    \/ \E bytes \in {bigintToBytes32(1), bigintToBytes32(3)} \cup SomePublicKeys :
          NewBuffer(bytes)
    \/ \E ref \in heap.held, compressed \in BOOLEAN : PrivateKeyByRef(ref, compressed)
    \/ \E ref \in heap.held, compressed \in BOOLEAN : PublicKeyByRef(ref, compressed)
    \/ \E i \in 1..Len(heap.fields) : GetPrivateKeyRef(i)
    \/ \E i \in 1..Len(heap.fields) : GetPublicKeyRef(i)
    \/ \E i \in 1..Len(heap.fields) : GetXOnlyPublicKeyRef(i)
    \/ \E ref \in heap.held, k \in 1..UncompressedLen, byte \in 0..(ByteBase - 1) :
          WriteByte(ref, k, byte)

SpecOwnership == Init /\ [][NextOwnership]_vars

\* ------------------------------------------------------------------------
\* SpecGrind: the low-R loop of sign on NobleBackend and on a backend whose
\* signatures all have a high first byte; a loop that is entered keeps
\* running and a loop that ends returns
\* ------------------------------------------------------------------------

NextGrind ==
    \/ \E b \in {NobleBackend, HighRBackend}, d \in Scalars : FromPrivateKey(b, d, NoOptions)
    \/ \E i \in Signers, h \in SomeHashes, lowR \in LowRInputs : Sign(i, h, lowR)
    \/ Grind
    \/ SignReturn

SpecGrind == Init /\ [][NextGrind]_vars /\ WF_vars(Grind) /\ WF_vars(SignReturn)

\* ------------------------------------------------------------------------
\* SpecBackend: the tweak and scalar operations of NobleBackend on every
\* pair of 32-byte values
\* ------------------------------------------------------------------------

NextBackend ==
    \/ \E p \in Scalars, t \in Scalars : XOnlyPointAddTweak(NobleBackend, p, t)
    \/ \E d \in Scalars, t \in Scalars : PrivateAdd(NobleBackend, d, t)
    \/ \E d \in Scalars : PrivateNegate(NobleBackend, d)

SpecBackend == Init /\ [][NextBackend]_vars

\* ------------------------------------------------------------------------
\* SpecFactory: fromPrivateKey and fromPublicKey on every key, backend and
\* form of options, and the operations on the signers made
\* ------------------------------------------------------------------------

NextFactory ==
    \/ \E b \in Backends, d \in Scalars \cup {ShortBytes}, o \in OptionInputs :
          FromPrivateKey(b, d, o)
    \/ \E b \in Backends, p \in PublicKeyInputs, o \in OptionInputs :
          FromPublicKey(b, p, o)
    \/ \E i \in Signers : GetPublicKey(i)
    \/ \E i \in Signers, lowR \in LowRInputs : Sign(i, OneHash, lowR)
    \/ Grind
    \/ SignReturn
    \/ \E i \in Signers : SignSchnorr(i, OneHash, OneHash)
    \/ \E i \in Signers, v \in VerifyInputs : Verify(i, v[1], v[2])
    \/ \E i \in Signers : ToWIF(i)
    \/ \E i \in Signers, t \in {bigintToBytes32(1), bigintToBytes32(EC_N - 1)} : Tweak(i, t)

SpecFactory == Init /\ [][NextFactory]_vars

\* ------------------------------------------------------------------------
\* Properties
\* ------------------------------------------------------------------------

\* the last call has returned (sign is not inside its loop)
Done(op) == pc = "idle" /\ call.op = op

\* the number of calls of fn in a log
RECURSIVE Calls(_, _)
Calls(log, fn) ==
    IF log = <<>> THEN 0
    ELSE (IF Head(log).fn = fn THEN 1 ELSE 0) + Calls(Tail(log), fn)

\* C1: cross-path tweak equivalence.  Whenever s.tweak(t) has succeeded on a
\* signer s that holds a private key, fromPublicKey(s.publicKey, same
\* options).tweak(t) succeeds too and the two signers made have the same
\* public key.
CrossPathTweak ==
    (Done("tweak") /\ call.ok /\ signers[call.self].privateKey # <<>>) =>
        LET s == signers[call.self]
            twin == fromPublicKey(s.backend, s.publicKey, SameOptions(s))
            viaPublic == tweak(twin.signer, call.args[1])
        IN  /\ twin.ok
            /\ viaPublic.ok
            /\ getPublicKeyOf(viaPublic.made).val = getPublicKeyOf(signers[call.made]).val

\* on the library behind LegacyBackend the two paths of tweak agree, for keys
\* of even and of odd y: the disagreement is NobleBackend's
CrossPathTweakLegacy ==
    (Done("tweak") /\ call.ok /\ signers[call.self].privateKey # <<>>
        /\ signers[call.self].backend.adapter # "noble") =>
        LET s == signers[call.self]
            twin == fromPublicKey(s.backend, s.publicKey, SameOptions(s))
            viaPublic == tweak(twin.signer, call.args[1])
        IN  /\ twin.ok
            /\ viaPublic.ok
            /\ getPublicKeyOf(viaPublic.made).val = getPublicKeyOf(signers[call.made]).val

\* C2: whenever sign(hash, true) returns on a signer that holds a private
\* key, the first byte of the signature returned is at most the low-R threshold.
LowRSignature ==
    (Done("sign") /\ call.ok /\ call.args[2] = "true") =>
        (Len(call.val) = SigLen /\ call.val[1] <= LowRMax)

\* sign(hash, true) has returned after asking the backend for three signatures
LowRGround ==
    Done("sign") /\ call.ok /\ call.args[2] = "true" /\ Len(call.log) >= 3
    /\ call.val[1] <= LowRMax

\* what sign(hash) and sign(hash, false) ask of the backend and return
PlainSignature ==
    (Done("sign") /\ call.ok /\ call.args[2] \in {"absent", "false"}) =>
        /\ call.log = <<Call("sign", <<>>)>>
        /\ call.val = B_sign(signers[call.self].backend, call.args[1],
                             signers[call.self].privateKey, <<>>)

\* a second sign without lowR, on the same signer and hash, returns the same bytes
SameSignature ==
    (/\ Done("sign") /\ call.ok /\ call.args[2] \in {"absent", "false"}
     /\ pc' = "idle" /\ call'.op = "sign" /\ call'.ok /\ call'.args[2] \in {"absent", "false"}
     /\ call'.self = call.self /\ call'.args[1] = call.args[1]) =>
        call'.val = call.val

\* C3: sign(hash) and sign(hash, false) make exactly one backend.sign call,
\* with no extra entropy, and return its result unchanged, whatever its first
\* byte; a repeated call on the same signer and hash returns the same bytes.
PlainSign == []PlainSignature /\ [][SameSignature]_vars

\* sign(hash) has returned a signature whose first byte is above the threshold
PlainHighR ==
    Done("sign") /\ call.ok /\ call.args[2] = "absent" /\ call.val[1] > LowRMax

\* C4: for every WIF string that fromWIF accepted, with a single network or
\* a list of networks, toWIF of the signer made returns that string.
WIFRoundTrip ==
    (Done("toWIF") /\ signers[call.self].origin.op = "fromWIF") =>
        (call.ok /\ call.val = signers[call.self].origin.args[1])

\* toWIF has returned on an uncompressed signer whose network was found in a
\* list where two networks have its version byte
WIFSharedVersion ==
    /\ Done("toWIF") /\ call.ok
    /\ signers[call.self].origin.op = "fromWIF"
    /\ signers[call.self].network = "regtest"
    /\ ~signers[call.self].compressed

\* C5: backend.pointFromScalar is called at most once for a signer, by no
\* factory, and never for a signer made from a public key.
LazyOnce ==
    /\ \A i \in Signers :
          /\ signers[i].derivations <= 1
          /\ signers[i].privateKey = <<>> => signers[i].derivations = 0
          /\ signers[i].publicKey = <<>> => signers[i].derivations = 0
    /\ (call.op \in {"fromPrivateKey", "fromPublicKey", "fromWIF", "makeRandom"}) =>
          Calls(call.log, "pointFromScalar") = 0
    /\ (call.op = "tweak" /\ call.ok) => signers[call.made].derivations = 0

\* verify has used the public key that an earlier operation derived
LazyCacheHit ==
    /\ Done("verify") /\ call.ok
    /\ signers[call.self].privateKey # <<>>
    /\ signers[call.self].derivations = 1
    /\ Calls(call.log, "pointFromScalar") = 0

\* C6: every signer was made from a backend on which verifyCryptoBackend had
\* run and passed.
NoUnverifiedBackend == \A i \in Signers : signers[i].backend \in verified

\* C7: makeRandom with a random source returns the first draw d with
\* 0 < d < n, after calling the source once per draw; on the script 0, n,
\* n - 1 it calls the source three times and the key is n - 1.
RandomInRange ==
    /\ (Done("makeRandom") /\ call.ok /\ call.args # <<>>) =>
          LET d == signers[call.made].privateKey
          IN  /\ isPrivateKey(d)
              /\ d = call.args[Len(call.args)]
              /\ \A k \in 1..(Len(call.args) - 1) : ~isPrivateKey(call.args[k])
              /\ Calls(call.log, "rng") = Len(call.args)
    /\ (Done("makeRandom")
        /\ call.args = <<bigintToBytes32(0), bigintToBytes32(EC_N), bigintToBytes32(EC_N - 1)>>)
          => /\ call.ok
             /\ Calls(call.log, "rng") = 3
             /\ signers[call.made].privateKey = bigintToBytes32(EC_N - 1)

\* makeRandom has returned on the script 0, n, n - 1
RandomScripted ==
    /\ Done("makeRandom") /\ call.ok
    /\ call.args = <<bigintToBytes32(0), bigintToBytes32(EC_N), bigintToBytes32(EC_N - 1)>>

\* C8: every signer that holds a private key holds a 32-byte value d with
\* 0 < d < n, however the signer was made.
PrivateKeyInRange ==
    \A i \in Signers :
        signers[i].privateKey # <<>> =>
            /\ Len(signers[i].privateKey) = KeyLen
            /\ bytesToBigInt(signers[i].privateKey) > 0
            /\ bytesToBigInt(signers[i].privateKey) < EC_N

\* a signer made by the tweak of a private-key signer by a tweak of n or more
PrivateKeyTweaked ==
    \E i \in Signers :
        /\ signers[i].origin.op = "tweak"
        /\ signers[i].privateKey # <<>>
        /\ bytesToBigInt(signers[i].origin.args[1]) >= EC_N

\* signers[j] is signers[i] or was made by fromPublicKey from its public key
SameKey(i, j) ==
    \/ j = i
    \/ /\ signers[j].privateKey = <<>>
       /\ signers[j].origin.op = "fromPublicKey"
       /\ signers[j].origin.args[1] = signers[i].publicKey

\* a verify step on the signature that the sign step just before returned
VerifiesLast(signOp, verifyOp) ==
    /\ Done(signOp) /\ call.ok
    /\ pc' = "idle" /\ call'.op = verifyOp
    /\ call'.args = <<call.args[1], call.val>>
    /\ SameKey(call.self, call'.self)

\* C9: verify is true on the signature that sign has just returned for the
\* same hash, whatever lowR was, on the signer and on the signer made from its
\* public key; and verifySchnorr is true on what signSchnorr has just returned.
SignVerifyRoundTrip ==
    [][/\ VerifiesLast("sign", "verify") => (call'.ok /\ call'.val = TRUE)
       /\ VerifiesLast("signSchnorr", "verifySchnorr") => (call'.ok /\ call'.val = TRUE)]_vars

\* the signer made from a public key has verified a signature that a signer made
RoundTripTwin ==
    /\ Done("verify") /\ call.ok /\ call.val = TRUE
    /\ signers[call.self].privateKey = <<>>
    /\ call.args[2] # Tampered

\* C10: a capability is in the set exactly when the operation does not fail
\* for want of a key or of backend support, and every read gives the same set.
CapabilitiesTell ==
    pc = "idle" =>
        LET caps == getCapabilitiesOf(signers[call.self]).val
        IN  /\ call.op = "sign" =>
                 ("EcdsaSign" \in caps <=> call.err # "Missing private key")
            /\ call.op = "toWIF" =>
                 ("PrivateKeyExport" \in caps <=> call.err # "Missing private key")
            /\ call.op = "signSchnorr" =>
                 ("SchnorrSign" \in caps <=>
                     call.err \notin {"Missing private key",
                                      "signSchnorr not supported by ecc library"})
            /\ call.op = "verifySchnorr" =>
                 ("SchnorrVerify" \in caps <=>
                     call.err # "verifySchnorr not supported by ecc library")
            /\ call.op = "capabilities" =>
                 call.val = computeCapabilities(signers[call.self])

\* C11: tweak(t) leaves the signer it is called on as it was, whether it
\* succeeds or fails: the same private key, public key, network and compressed
\* flag; no other signer changes.  When it succeeds exactly one signer is
\* made, another instance, with the network and the compressed flag of the
\* original, and with a private key exactly when the original has one; when
\* it fails none is made.
TweakFrame ==
    [][(pc = "idle" /\ pc' = "idle" /\ call'.op = "tweak") =>
          LET i == call'.self
              before == signers[i]
              after == signers'[i]
          IN  /\ after.privateKey = before.privateKey
              /\ getPublicKeyOf(after).ok = getPublicKeyOf(before).ok
              /\ getPublicKeyOf(after).val = getPublicKeyOf(before).val
              /\ after.network = before.network
              /\ after.compressed = before.compressed
              /\ \A j \in Signers \ {i} : signers'[j] = signers[j]
              /\ IF call'.ok
                 THEN /\ Len(signers') = Len(signers) + 1
                      /\ call'.made = Len(signers) + 1
                      /\ call'.made # i
                      /\ signers'[call'.made].network = before.network
                      /\ signers'[call'.made].compressed = before.compressed
                      /\ (signers'[call'.made].privateKey # <<>>) <=> (before.privateKey # <<>>)
                 ELSE /\ Len(signers') = Len(signers)
                      /\ call'.made = 0]_vars

\* tweak has made an uncompressed signer from a signer without a private key
TweakMadeTwin ==
    /\ Done("tweak") /\ call.ok
    /\ call.made # call.self
    /\ signers[call.self].privateKey = <<>>
    /\ signers[call.made].privateKey = <<>>
    /\ ~signers[call.made].compressed

\* the scalar of the even-y representative of the key d: n - d when d * G has
\* odd y
EvenScalar(d) ==
    IF GTable[bytesToBigInt(d)][2] % 2 = 1 THEN EC_N - bytesToBigInt(d)
    ELSE bytesToBigInt(d)

\* the tweak of signers[i] by t is degenerate: the (possibly negated) private
\* key plus t is 0 mod n, or, without a private key, the even-y point of the
\* x-only key plus t * G is the point at infinity
Degenerate(i, t) ==
    IF signers[i].privateKey # <<>>
    THEN (EvenScalar(signers[i].privateKey) + bytesToBigInt(t)) % EC_N = 0
    ELSE PointAdd(lift_x(bytesToBigInt(toXOnly(signers[i].publicKey))).point,
                  GTable[bytesToBigInt(t) % EC_N]) = Infinity

\* the backend of signers[i] takes t as a tweak: NobleBackend computes with
\* every 32-byte value, the library behind the other backends throws an error
\* of its own on a tweak of n or more
TakesTweak(i, t) == signers[i].backend.adapter = "noble" \/ Tiny_isTweak(t)

RECURSIVE Matching(_, _)
Matching(nets, version) ==
    IF nets = <<>> THEN <<>>
    ELSE (IF WifVersion(Head(nets)) = version THEN <<Head(nets)>> ELSE <<>>)
         \o Matching(Tail(nets), version)

\* C13: the signer that fromWIF makes has, given a list of networks, the
\* first network of the list whose version byte is that of the string, also
\* when several have it; given a single network, that network; given none,
\* the mainnet table.
WIFNetwork ==
    (Done("fromWIF") /\ call.ok) =>
        LET version == wif_decode(call.args[1]).version
            given == call.input.network
            made == signers[call.made].network
        IN  IF given = <<>> THEN made = "bitcoin"
            ELSE IF given[1].isList
            THEN /\ Matching(given[1].nets, version) # <<>>
                 /\ made = Head(Matching(given[1].nets, version))
            ELSE made = given[1].nets[1]

\* fromWIF has taken regtest from a list in which testnet, with the same
\* version byte, comes second
WIFFirstOfShared ==
    /\ Done("fromWIF") /\ call.ok
    /\ call.input.network = <<[isList |-> TRUE, nets |-> <<"regtest", "testnet">>]>>
    /\ signers[call.made].network = "regtest"

\* C14: on a string that the WIF codec decodes, fromWIF fails with 'Unknown
\* network version' when a list is given and no network of it has the
\* version byte of the string, and with 'Invalid network version' when a
\* single network, or the mainnet default, has another version byte; no
\* signer is made.
WIFVersionMismatch ==
    (Done("fromWIF") /\ wif_decode(call.args[1]).ok) =>
        LET version == wif_decode(call.args[1]).version
            given == call.input.network
        IN  /\ (given # <<>> /\ given[1].isList
                /\ \A k \in 1..Len(given[1].nets) : WifVersion(given[1].nets[k]) # version)
                  => (~call.ok /\ call.err = "Unknown network version" /\ call.made = 0)
            /\ (given # <<>> /\ ~given[1].isList /\ WifVersion(given[1].nets[1]) # version)
                  => (~call.ok /\ call.err = "Invalid network version" /\ call.made = 0)
            /\ (given = <<>> /\ WifVersion("bitcoin") # version)
                  => (~call.ok /\ call.err = "Invalid network version" /\ call.made = 0)

\* fromWIF has failed on the empty list of networks
WIFEmptyList ==
    /\ Done("fromWIF") /\ ~call.ok
    /\ call.err = "Unknown network version"
    /\ call.input.network = <<[isList |-> TRUE, nets |-> <<>>]>>

\* C15: every read of publicKey on a signer made by fromPrivateKey from d,
\* with compressed flag c, returns backend.pointFromScalar(d, c), the encoding
\* of d * G, and the value kept is that one, so that all reads agree; for
\* d = 1 and c = TRUE it is the compressed generator point.
PublicKeyDerived ==
    \A i \in Signers :
        signers[i].origin.op = "fromPrivateKey" =>
            LET d == signers[i].origin.args[1]
                c == signers[i].compressed
                derived == B_pointFromScalar(signers[i].backend, d, c)
            IN  /\ derived = PointToBytes(GTable[bytesToBigInt(d)], c)
                /\ signers[i].publicKey \in {<<>>, derived}
                /\ (Done("publicKey") /\ call.self = i) => (call.ok /\ call.val = derived)
                /\ (bytesToBigInt(d) = 1 /\ c) => derived = <<2>> \o bigintToBytes32(Gx)

\* a second read of publicKey on an uncompressed signer made from a private key
PublicKeyReadAgain ==
    /\ Done("publicKey") /\ call.ok /\ call.log = <<>>
    /\ signers[call.self].origin.op = "fromPrivateKey"
    /\ signers[call.self].derivations = 1
    /\ ~signers[call.self].compressed

\* what fromPrivateKey has returned
FromPrivateKeyOutcome ==
    Done("fromPrivateKey") =>
        LET key == call.args[1]
            options == call.input.options
        IN  /\ call.ok <=> B_isPrivate(call.input.backend, key)
            /\ ~call.ok => (call.err = "Private key not in range [1, n)" /\ call.made = 0)
            /\ call.ok =>
                  /\ call.made = Len(signers)
                  /\ signers[call.made].backend = call.input.backend
                  /\ signers[call.made].privateKey = key
                  /\ signers[call.made].compressed =
                        (IF options.compressed = <<>> THEN TRUE ELSE options.compressed[1])
                  /\ signers[call.made].network =
                        (IF options.network = <<>> THEN "bitcoin" ELSE options.network[1])

\* a factory call that fails leaves the signers as they were
FailedMakesNone(op) == (call'.op = op /\ ~call'.ok) => signers' = signers

\* C18: fromPrivateKey returns a signer exactly when backend.isPrivate(key)
\* is true, and otherwise fails with 'Private key not in range [1, n)' and
\* makes no signer; the signer has the compressed flag and the network of the
\* options, TRUE and mainnet where they are omitted.
FromPrivateKeyChecked ==
    []FromPrivateKeyOutcome /\ [][FailedMakesNone("fromPrivateKey")]_vars

\* fromPrivateKey without options has made a compressed mainnet signer
FromPrivateKeyDefaults ==
    /\ Done("fromPrivateKey") /\ call.ok
    /\ call.input.options = NoOptions
    /\ signers[call.made].compressed
    /\ signers[call.made].network = "bitcoin"

\* what fromPublicKey has returned on a key that is no point, and the keys
\* that signers hold and that the backend is called with
FromPublicKeyOutcome ==
    /\ (Done("fromPublicKey") /\ ~B_isPoint(call.input.backend, call.args[1])) =>
          /\ ~call.ok
          /\ call.err = "Point not on the curve"
          /\ call.made = 0
          /\ call.log = <<Call("isPoint", call.args[1])>>
    /\ \A i \in Signers :
          signers[i].publicKey # <<>> => B_isPoint(signers[i].backend, signers[i].publicKey)
    /\ \A k \in 1..Len(call.log) :
          call.log[k].fn \in {"pointCompress", "verify"} =>
              PointFromBytes(call.log[k].arg).ok

\* C19: fromPublicKey fails with 'Point not on the curve' and makes no signer
\* whenever backend.isPoint(key) is false; isPoint is the only backend call
\* it has made then, and no signer holds, and no pointCompress or verify call
\* is given, a key that is no point.
FromPublicKeyChecked ==
    []FromPublicKeyOutcome /\ [][FailedMakesNone("fromPublicKey")]_vars

\* fromPublicKey has failed on the buffer with prefix 0x02 that is no point
FromPublicKeyOffCurve ==
    /\ Done("fromPublicKey") /\ ~call.ok
    /\ call.err = "Point not on the curve"
    /\ call.args[1] = OffCurve

\* C20: on a signer without a private key, sign, signSchnorr and toWIF fail
\* with 'Missing private key' and call neither the backend nor the WIF codec,
\* also when the backend has no signSchnorr.
MissingPrivateKey ==
    (pc = "idle" /\ call.op \in {"sign", "signSchnorr", "toWIF"}
        /\ signers[call.self].privateKey = <<>>) =>
        /\ ~call.ok
        /\ call.err = "Missing private key"
        /\ call.log = <<>>

\* signSchnorr has failed for want of a key on a signer made by tweak, on a
\* backend without signSchnorr
MissingKeyBeforeSupport ==
    /\ Done("signSchnorr") /\ ~call.ok
    /\ call.err = "Missing private key"
    /\ signers[call.self].origin.op = "tweak"
    /\ ~HasSignSchnorr(signers[call.self].backend)

\* the number of calls of generatePrivateKey and of the random source that
\* the last makeRandom has made
Generated == Calls(call.log, "generatePrivateKey")
Drawn == Calls(call.log, "rng")

\* C16 as stated: makeRandom takes the key from backend.generatePrivateKey
\* whenever the backend has that operation, whatever the options, and draws
\* from the random source only when the backend has not.
GeneratedWhenExposed ==
    Done("makeRandom") =>
        IF HasGeneratePrivateKey(call.input.backend)
        THEN Generated = 1 /\ Drawn = 0
        ELSE Generated = 0 /\ Drawn >= 1

\* C16 as amended: makeRandom takes the key from backend.generatePrivateKey
\* when the backend has that operation and options.rng is not given; when
\* options.rng is given, or the backend has no generatePrivateKey, it draws
\* from the random source and the key is the draw that ended the loop.
GeneratedUnlessRng ==
    Done("makeRandom") =>
        IF HasGeneratePrivateKey(call.input.backend) /\ ~call.input.hasRng
        THEN /\ Generated = 1 /\ Drawn = 0
             /\ Calls(call.log, "isPrivate") = 1
             /\ call.ok
        ELSE /\ Generated = 0
             /\ Drawn = Len(call.args) /\ Drawn >= 1
             /\ call.ok => signers[call.made].privateKey = call.args[Len(call.args)]

\* makeRandom with options.rng has drawn its key from it on a backend that
\* has generatePrivateKey
RngOverGenerate ==
    /\ Done("makeRandom") /\ call.ok
    /\ HasGeneratePrivateKey(call.input.backend)
    /\ call.input.hasRng
    /\ Drawn >= 2

\* what makeRandom has returned when the last draw was not of 32 bytes
RngLengthOutcome ==
    (Done("makeRandom") /\ call.args # <<>>
        /\ Len(call.args[Len(call.args)]) # KeyLen) =>
        /\ ~call.ok
        /\ call.err = "Expected 32 bytes from rng"
        /\ call.made = 0
        /\ call.log[Len(call.log)] = Call("rng", call.args[Len(call.args)])
        /\ Drawn = Len(call.args)
        /\ Calls(call.log, "isPrivate") = Len(call.args) - 1

\* C17: makeRandom fails with the length error and makes no signer as soon
\* as the random source returns a value that is not of 32 bytes, on the first
\* draw or after rejected draws, and backend.isPrivate is not asked about
\* that draw.
RngLengthChecked ==
    []RngLengthOutcome /\ [][FailedMakesNone("makeRandom")]_vars

\* makeRandom has failed on a short draw that came after rejected draws
ShortAfterRejected ==
    /\ Done("makeRandom") /\ ~call.ok
    /\ Len(call.args) >= 2
    /\ Len(call.args[Len(call.args)]) # KeyLen

\* C21: signSchnorr on a signer with a private key fails with 'signSchnorr
\* not supported by ecc library' when the curve library has no Schnorr
\* signing; verifySchnorr fails with 'verifySchnorr not supported by ecc
\* library' when it has no Schnorr verification; when it has, the key that
\* verifySchnorr passes to the backend is bytes 1..32 of the public key.
SchnorrSupport ==
    /\ (Done("signSchnorr") /\ signers[call.self].privateKey # <<>>) =>
          IF signers[call.self].backend.eccSignSchnorr
          THEN call.ok /\ call.log = <<Call("signSchnorr", call.args[1])>>
          ELSE ~call.ok /\ call.err = "signSchnorr not supported by ecc library"
    /\ Done("verifySchnorr") =>
          IF signers[call.self].backend.eccVerifySchnorr
          THEN /\ call.ok
               /\ Len(signers[call.self].publicKey) \in {CompressedLen, UncompressedLen}
               /\ call.log[Len(call.log)] =
                     Call("verifySchnorr", SubSeq(signers[call.self].publicKey, 2, KeyLen + 1))
          ELSE ~call.ok /\ call.err = "verifySchnorr not supported by ecc library"

\* signSchnorr has failed on a private-key signer of a LegacyBackend whose
\* library has no signSchnorr
SchnorrSignUnsupported ==
    /\ Done("signSchnorr") /\ ~call.ok
    /\ signers[call.self].privateKey # <<>>
    /\ signers[call.self].backend.adapter = "legacy"

\* the vectors of the battery in their order: the name that the assertion
\* gives to a vector, and whether the backend answers it as expected
Vectors(backend) ==
    LET G == PointToBytes(GTable[1], TRUE)
        GUncompressed == PointToBytes(GTable[1], FALSE)
        one == bigintToBytes32(1)
        zero == bigintToBytes32(0)
        three == bigintToBytes32(3)
        hash == bigintToBytes32(5)
        xOnly == toXOnly(PointToBytes(GTable[3], TRUE))
        vector(name, right) == [name |-> name, right |-> right]
    IN  << vector("isPoint should accept generator point", B_isPoint(backend, G)),
           vector("isPoint should reject invalid point", ~B_isPoint(backend, <<3, 0, 0>>)),
           vector("isPrivate should accept valid scalar",
                  B_isPrivate(backend, bigintToBytes32(Gx))),
           vector("isPrivate should accept n-1",
                  B_isPrivate(backend, bigintToBytes32(EC_N - 1))),
           vector("isPrivate should reject zero", ~B_isPrivate(backend, zero)),
           vector("isPrivate should reject n", ~B_isPrivate(backend, bigintToBytes32(EC_N))),
           vector("isPrivate should reject n+1",
                  ~B_isPrivate(backend, bigintToBytes32(EC_N + 1))),
           vector("privateAdd: 1 + 0 should equal 1",
                  /\ B_privateAdd(backend, one, zero).status = "ok"
                  /\ B_privateAdd(backend, one, zero).bytes = one),
           vector("privateAdd: (n-3) + 3 should return null (result is zero mod n)",
                  B_privateAdd(backend, bigintToBytes32(EC_N - 3), three).status = "null"),
           vector("privateNegate(1) should equal n-1",
                  B_privateNegate(backend, one) = bigintToBytes32(EC_N - 1)),
           vector("privateNegate(n-3) should equal 3",
                  B_privateNegate(backend, bigintToBytes32(EC_N - 3)) = three),
           vector("pointCompress uncompressed->compressed failed",
                  B_pointCompress(backend, GUncompressed, TRUE) = G),
           vector("pointCompress compressed->uncompressed failed",
                  B_pointCompress(backend, G, FALSE) = GUncompressed),
           vector("pointFromScalar known vector failed",
                  B_pointFromScalar(backend, three, TRUE) = PointToBytes(GTable[3], TRUE)),
           vector("xOnlyPointAddTweak should return null for infinity result",
                  B_xOnlyPointAddTweak(backend, bigintToBytes32(Gx),
                                       bigintToBytes32(EC_N - 1)).status = "null"),
           vector("sign known vector failed",
                  B_sign(backend, hash, one, <<>>) = EcdsaSign(hash, one, <<>>)),
           vector("verify known vector failed",
                  B_verify(backend, hash, G, EcdsaSign(hash, one, <<>>))),
           vector("signSchnorr known vector failed",
                  HasSignSchnorr(backend) =>
                      /\ B_signSchnorr(backend, hash, three, zero).status = "ok"
                      /\ B_signSchnorr(backend, hash, three, zero).bytes
                            = SchnorrSign(hash, three, zero)),
           vector("verifySchnorr known vector failed",
                  HasVerifySchnorr(backend) =>
                      /\ B_verifySchnorr(backend, hash, xOnly,
                                         SchnorrSign(hash, three, zero)).status = "ok"
                      /\ B_verifySchnorr(backend, hash, xOnly,
                                         SchnorrSign(hash, three, zero)).val) >>

\* the vectors computed once for every backend
VectorTable == [backend \in Backends |-> Vectors(backend)]

\* the messages of the assertions, in the order of the vectors
Messages ==
    << "verifyCryptoBackend: isPoint should accept generator point",
       "verifyCryptoBackend: isPoint should reject invalid point",
       "verifyCryptoBackend: isPrivate should accept valid scalar",
       "verifyCryptoBackend: isPrivate should accept n-1",
       "verifyCryptoBackend: isPrivate should reject zero",
       "verifyCryptoBackend: isPrivate should reject n",
       "verifyCryptoBackend: isPrivate should reject n+1",
       "verifyCryptoBackend: privateAdd: 1 + 0 should equal 1",
       "verifyCryptoBackend: privateAdd: (n-3) + 3 should return null (result is zero mod n)",
       "verifyCryptoBackend: privateNegate(1) should equal n-1",
       "verifyCryptoBackend: privateNegate(n-3) should equal 3",
       "verifyCryptoBackend: pointCompress uncompressed->compressed failed",
       "verifyCryptoBackend: pointCompress compressed->uncompressed failed",
       "verifyCryptoBackend: pointFromScalar known vector failed",
       "verifyCryptoBackend: xOnlyPointAddTweak should return null for infinity result",
       "verifyCryptoBackend: sign known vector failed",
       "verifyCryptoBackend: verify known vector failed",
       "verifyCryptoBackend: signSchnorr known vector failed",
       "verifyCryptoBackend: verifySchnorr known vector failed" >>

\* C22: verifyCryptoBackend returns without error exactly when the backend
\* answers every vector as expected, and otherwise throws the message
\* 'verifyCryptoBackend: ...' of the first vector, in the order of the
\* battery, whose answer is wrong.
BatteryNamesFirstWrong ==
    Done("verifyCryptoBackend") =>
        LET vectors == VectorTable[call.input.backend]
        IN  /\ call.ok <=> \A k \in 1..Len(vectors) : vectors[k].right
            /\ ~call.ok =>
                  \E k \in 1..Len(vectors) :
                      /\ ~vectors[k].right
                      /\ \A j \in 1..(k - 1) : vectors[j].right
                      /\ call.err = Messages[k]

\* C23: a backend whose curve library has no signSchnorr or no verifySchnorr
\* and that answers every other vector as expected passes verifyCryptoBackend.
SchnorrVectorsOptional ==
    (/\ Done("verifyCryptoBackend")
     /\ ~(call.input.backend.eccSignSchnorr /\ call.input.backend.eccVerifySchnorr)
     /\ \A k \in 1..Len(Messages) :
           VectorTable[call.input.backend][k].name
               \in {"signSchnorr known vector failed", "verifySchnorr known vector failed"}
           \/ VectorTable[call.input.backend][k].right)
        => call.ok

\* what the types are said to be: PrivateKey is 32 bytes with 0 < value < n,
\* PublicKey 33 bytes with prefix 2 or 3 or 65 bytes with prefix 4, 6 or 7,
\* XOnlyPublicKey 32 bytes not all zero, Signature 8 to 73 bytes,
\* SchnorrSignature 64 bytes, MessageHash and Bytes32 32 bytes, Bytes20 20
\* bytes, Satoshi a bigint from 0 to the greatest
Described(X, v) ==
    LET len == Len(v.bytes)
    IN  IF X = "Satoshi" THEN v.kind = "bigint" /\ v.n \in 0..SATOSHI_MAX
        ELSE /\ v.kind = "Uint8Array"
             /\ CASE X \in {"Bytes32", "MessageHash"} -> len = KeyLen
                   [] X = "Bytes20" -> len = Bytes20Len
                   [] X = "PrivateKey" ->
                        /\ len = KeyLen
                        /\ bytesToBigInt(v.bytes) > 0
                        /\ bytesToBigInt(v.bytes) < EC_N
                   [] X = "PublicKey" ->
                        \/ len = CompressedLen /\ v.bytes[1] \in {2, 3}
                        \/ len = UncompressedLen /\ v.bytes[1] \in {4, 6, 7}
                   [] X = "XOnlyPublicKey" ->
                        len = KeyLen /\ \E i \in 1..len : v.bytes[i] # 0
                   [] X = "Signature" -> len \in SignatureMinLen..SignatureMaxLen
                   [] X = "SchnorrSignature" -> len = 2 * KeyLen

\* C24: for every validated type X and every value v, isX(v) is true exactly
\* when createX(v) returns v without failing, and exactly when v is as the
\* type is described.
GuardsAgreeWithCreate ==
    Done("create") =>
        LET X == call.args[1]
            v == call.args[2]
        IN  /\ call.ok <=> isType(X, v)
            /\ call.ok => call.val = <<v>>
            /\ ~call.ok => call.val = <<>> /\ call.err # ""
            /\ isType(X, v) <=> Described(X, v)

\* createPrivateKey has rejected the zero key
CreateRejectedZero ==
    /\ Done("create") /\ ~call.ok
    /\ call.args[1] = "PrivateKey"
    /\ call.args[2].kind = "Uint8Array"
    /\ call.args[2].bytes = bigintToBytes32(0)
    /\ call.err = "assertPrivateKey: key is zero"

\* what the getters of signer i return in heap h: privateKey, publicKey
\* (derived on the first read) and xOnlyPublicKey
Observed(h, i) ==
    LET f == WithPublicKey(h, i).fields[i]
        g == WithPublicKey(h, i)
    IN  [privateKey |-> Deref(g, f.privateKey),
         publicKey |-> Deref(g, f.publicKey),
         xOnlyPublicKey |-> IF f.xOnlyPublicKey # NoRef THEN Deref(g, f.xOnlyPublicKey)
                            ELSE IF f.publicKey = NoRef THEN <<>>
                            ELSE toXOnly(Deref(g, f.publicKey))]

\* C25: a signer exclusively owns its key material: a caller's write to a
\* buffer it passed to fromPrivateKey or fromPublicKey, or got from the
\* privateKey, publicKey or xOnlyPublicKey getter, changes what no signer's
\* getters return.
KeysOwned ==
    [][\A i \in 1..Len(heap.fields) : Observed(heap', i) = Observed(heap, i)]_vars

\* the bytes of a sequence in reverse order
Reversed(bytes) == [k \in 1..Len(bytes) |-> bytes[Len(bytes) + 1 - k]]

\* the extra entropy of the i-th call after the first: 32 bytes, the first
\* four the counter i as a little-endian integer, the others zero
CounterEntropy(e, i) ==
    /\ Len(e) = EntropyLen
    /\ bytesToBigInt(Reversed(SubSeq(e, 1, CounterLen))) = i
    /\ \A k \in (CounterLen + 1)..EntropyLen : e[k] = 0

\* C26: in sign(hash, true) the first backend.sign call carries no extra
\* entropy and the i-th later call carries the counter i, little-endian, in
\* the first four bytes of a zero 32-byte buffer; the calls stop at the first
\* signature whose first byte is at most the threshold, which is returned;
\* every sign call starts again from the attempt without entropy.
GrindOrder ==
    (call.op = "sign" /\ call.args[2] = "true" /\ call.log # <<>>) =>
        LET s == signers[call.self]
            made(j) == B_sign(s.backend, call.args[1], s.privateKey, call.log[j].arg)
            calls == Len(call.log)
        IN  /\ call.log[1] = Call("sign", <<>>)
            /\ \A i \in 1..(calls - 1) :
                  /\ call.log[i + 1].fn = "sign"
                  /\ CounterEntropy(call.log[i + 1].arg, i)
            /\ \A j \in 1..(calls - 1) : made(j)[1] > LowRMax
            /\ pc = "grind" => (local.counter = calls - 1 /\ local.sig = made(calls))
            /\ pc = "idle" => (call.val = made(calls) /\ call.val[1] <= LowRMax)

\* sign(hash, true) has returned the signature of its fourth attempt
GroundThrice ==
    Done("sign") /\ call.ok /\ call.args[2] = "true" /\ Len(call.log) >= 4

\* the signer of the call in progress is on the backend whose signatures
\* all have a high first byte
AlwaysHighR == signers[call.self].backend = HighRBackend

\* C27: the low-R loop has no iteration cap.  sign(hash, true) on a backend
\* that gives a signature with a low first byte for some attempt eventually
\* returns it; on a backend whose signatures all have a high first byte it
\* stays in the loop: it neither returns nor fails.
GrindsUntilLowR ==
    /\ (pc = "grind" /\ ~AlwaysHighR) ~> (Done("sign") /\ call.ok /\ call.val[1] <= LowRMax)
    /\ [][(pc = "grind" /\ AlwaysHighR) => (pc' = "grind" /\ call'.ok)]_vars
    /\ [](pc = "grind" /\ ~AlwaysHighR => local.counter < MaxGrinds)

\* the loop has run as many turns as the run follows
GrindsOn == pc = "grind" /\ AlwaysHighR /\ local.counter = MaxGrinds

\* C28: NobleBackend.xOnlyPointAddTweak(p, t), for an x-only key p that
\* lifts to a point P with even y and every 32-byte t: the result is absent
\* exactly when t >= n or P + t*G is the point at infinity; for every other
\* t, t = 0 too, it is the x-coordinate of P + t*G with parity 0 when the
\* y-coordinate is even and 1 when it is odd.
XOnlyTweakAdds ==
    (Done("xOnlyPointAddTweak") /\ lift_x(bytesToBigInt(call.args[1])).ok) =>
        LET P == lift_x(bytesToBigInt(call.args[1])).point
            t == bytesToBigInt(call.args[2])
            R == PointAdd(P, PointMul(<<Gx, Gy>>, t % EC_N))
        IN  /\ ~call.ok <=> (t >= EC_N \/ R = Infinity)
            /\ call.ok => call.val = <<R[2] % 2>> \o bigintToBytes32(R[1])

\* C29: NobleBackend.privateAdd(d, t) is (d + t) mod n and is absent exactly
\* when that is 0; privateNegate(d) is (n - d) mod n; for 0 < d < n it is in
\* 1..n-1, negating it gives d again, and adding it to d is absent.
ScalarArithmetic ==
    /\ Done("privateAdd") =>
          LET sum == ((bytesToBigInt(call.args[1]) % EC_N)
                      + (bytesToBigInt(call.args[2]) % EC_N)) % EC_N
          IN  /\ call.ok <=> sum # 0
              /\ call.err = ""
              /\ call.ok => (Len(call.val) = KeyLen /\ bytesToBigInt(call.val) = sum)
    /\ Done("privateNegate") =>
          LET d == bytesToBigInt(call.args[1])
              r == bytesToBigInt(call.val)
          IN  /\ Len(call.val) = KeyLen
              /\ (r + d) % EC_N = 0 /\ r < EC_N
              /\ (d > 0 /\ d < EC_N) =>
                    /\ r > 0
                    /\ B_privateNegate(call.input.backend, call.val) = call.args[1]
                    /\ B_privateAdd(call.input.backend, call.args[1], call.val).status = "null"

\* privateNegate has returned 1 for n - 1
NegatedLast ==
    /\ Done("privateNegate")
    /\ call.args[1] = bigintToBytes32(EC_N - 1)
    /\ call.val = bigintToBytes32(1)

\* C30: the two paths of tweak fail on the same inputs: s.tweak(t) on a
\* signer s that holds a private key fails exactly when
\* fromPublicKey(s.publicKey, same options).tweak(t) fails.
TweakPathsFailAlike ==
    (Done("tweak") /\ signers[call.self].privateKey # <<>>) =>
        LET s == signers[call.self]
            twin == fromPublicKey(s.backend, getPublicKeyOf(s).val, SameOptions(s))
        IN  /\ twin.ok
            /\ call.ok <=> tweak(twin.signer, call.args[1]).ok

\* the same on the library behind LegacyBackend
TweakPathsFailAlikeLegacy ==
    (Done("tweak") /\ signers[call.self].privateKey # <<>>
        /\ signers[call.self].backend.adapter # "noble") =>
        LET s == signers[call.self]
            twin == fromPublicKey(s.backend, getPublicKeyOf(s).val, SameOptions(s))
        IN  /\ twin.ok
            /\ call.ok <=> tweak(twin.signer, call.args[1]).ok

=============================================================================
